---- MODULE Spec2Model ----
(***************************************************************************)
(* Model of the Semtech SX1272 LoRa transceiver driver                     *)
(* (drivers/sx1272/sx1272.c): operating-mode state machine, DIO interrupt  *)
(* dispatch pipeline, timeout timers and channel programming.              *)
(*                                                                         *)
(* Every driver function is an operator from a device record d (the        *)
(* fields of sx1272_t plus the chip's registers and the lines the driver   *)
(* drives) to the device record it leaves behind.  The record carries a    *)
(* call log, oplog, of what the function did to its collaborators since    *)
(* the current operation began: register reads and writes, operating mode  *)
(* requests, timer and GPIO calls, and application callbacks.              *)
(***************************************************************************)
EXTENDS Integers, Sequences, FiniteSets, TLC

(***************************************************************************)
(* Bounds of the model.                                                    *)
(***************************************************************************)
\* messages the DIO interrupts may leave outstanding in the worker's queue
MaxPending == 1
\* the per-cycle event counter saturates here
MaxEvents == 2

\* DIO interrupts whose order of dispatch is followed
MaxPosted == 3

(***************************************************************************)
(* Register map and register field values (include/sx1272_regs_lora.h,     *)
(* include/sx1272_regs_fsk.h).                                             *)
(***************************************************************************)
\* register addresses: REG.OPMODE is the header's REG_OPMODE
REG ==
    [ LR_FIFO |-> 0,
      OPMODE |-> 1,
      PACONFIG |-> 9,
      LR_LNA |-> 12,
      LR_MODEMCONFIG2 |-> 30,
      LR_SYMBTIMEOUTLSB |-> 31,
      LR_PREAMBLEMSB |-> 32,
      LR_PREAMBLELSB |-> 33,
      LR_HOPPERIOD |-> 36,
      LR_DETECTOPTIMIZE |-> 49,
      LR_DETECTIONTHRESHOLD |-> 55,
      LR_PLLHOP |-> 75,
      PADAC |-> 90,
      FRFMSB |-> 6,
      FRFMID |-> 7,
      FRFLSB |-> 8,
      LR_FIFOADDRPTR |-> 13,
      LR_FIFOTXBASEADDR |-> 14,
      LR_FIFORXBASEADDR |-> 15,
      LR_FIFORXCURRENTADDR |-> 16,
      LR_IRQFLAGSMASK |-> 17,
      LR_IRQFLAGS |-> 18,
      LR_RXNBBYTES |-> 19,
      LR_PKTSNRVALUE |-> 25,
      LR_PKTRSSIVALUE |-> 26,
      LR_RSSIVALUE |-> 27,
      LR_HOPCHANNEL |-> 28,
      LR_MODEMCONFIG1 |-> 29,
      LR_PAYLOADLENGTH |-> 34,
      LR_PAYLOADMAXLENGTH |-> 35,
      LR_RSSIWIDEBAND |-> 44,
      LR_INVERTIQ |-> 51,
      LR_INVERTIQ2 |-> 59,
      DIOMAPPING1 |-> 64,
      DIOMAPPING2 |-> 65,
      VERSION |-> 66,
      RSSIVALUE |-> 17 ]

\* register fields common to both modems: RF.OPMODE_MASK is RF_OPMODE_MASK
RF ==
    [ OPMODE_MASK |-> 248,
      OPMODE_SLEEP |-> 0,
      OPMODE_STANDBY |-> 1,
      OPMODE_TRANSMITTER |-> 3,
      OPMODE_RECEIVER |-> 5,
      PACONFIG_PASELECT_MASK |-> 127,
      PACONFIG_PASELECT_PABOOST |-> 128,
      PACONFIG_PASELECT_RFO |-> 0,
      PADAC_20DBM_MASK |-> 248 ]

\* LoRa register fields: RFLR.IRQFLAGS_RXDONE is RFLR_IRQFLAGS_RXDONE
RFLR ==
    [ OPMODE_RECEIVER_SINGLE |-> 6,
      OPMODE_CAD |-> 7,
      OPMODE_LONGRANGEMODE_MASK |-> 127,
      OPMODE_LONGRANGEMODE_ON |-> 128,
      OPMODE_LONGRANGEMODE_OFF |-> 0,
      IRQFLAGS_RXTIMEOUT |-> 128,
      IRQFLAGS_RXDONE |-> 64,
      IRQFLAGS_PAYLOADCRCERROR |-> 32,
      IRQFLAGS_PAYLOADCRCERROR_MASK |-> 32,
      IRQFLAGS_VALIDHEADER |-> 16,
      IRQFLAGS_TXDONE |-> 8,
      IRQFLAGS_CADDONE |-> 4,
      IRQFLAGS_FHSSCHANGEDCHANNEL |-> 2,
      IRQFLAGS_CADDETECTED |-> 1,
      DIOMAPPING1_DIO0_MASK |-> 63,
      DIOMAPPING1_DIO0_00 |-> 0,
      DIOMAPPING1_DIO0_01 |-> 64,
      DIOMAPPING1_DIO2_MASK |-> 243,
      DIOMAPPING1_DIO2_00 |-> 0,
      DIOMAPPING1_DIO3_MASK |-> 252,
      DIOMAPPING1_DIO3_00 |-> 0,
      DIOMAPPING2_DIO4_MASK |-> 63,
      DIOMAPPING2_DIO4_00 |-> 0,
      INVERTIQ_RX_MASK |-> 191,
      INVERTIQ_RX_OFF |-> 0,
      INVERTIQ_RX_ON |-> 64,
      INVERTIQ_TX_MASK |-> 254,
      INVERTIQ_TX_OFF |-> 1,
      INVERTIQ_TX_ON |-> 0,
      INVERTIQ2_ON |-> 25,
      INVERTIQ2_OFF |-> 29,
      HOPCHANNEL_CHANNEL_MASK |-> 63,
      PACONFIG_OUTPUTPOWER_MASK |-> 240,
      PADAC_20DBM_ON |-> 7,
      PADAC_20DBM_OFF |-> 4,
      MODEMCONFIG1_BW_MASK |-> 63,
      MODEMCONFIG1_CODINGRATE_MASK |-> 199,
      MODEMCONFIG1_IMPLICITHEADER_MASK |-> 251,
      MODEMCONFIG1_RXPAYLOADCRC_MASK |-> 253,
      MODEMCONFIG1_LOWDATARATEOPTIMIZE_MASK |-> 254,
      MODEMCONFIG2_SF_MASK |-> 15,
      MODEMCONFIG2_SYMBTIMEOUTMSB_MASK |-> 252,
      MODEMCONFIG2_AGCAUTO_MASK |-> 251,
      MODEMCONFIG2_AGCAUTO_ON |-> 4,
      PLLHOP_FASTHOP_MASK |-> 127,
      PLLHOP_FASTHOP_ON |-> 128,
      LNA_BOOST_MASK |-> 252,
      LNA_BOOST_ON |-> 3,
      DETECTIONOPTIMIZE_SF7_TO_SF12 |-> 3,
      DETECTIONTHRESH_SF7_TO_SF12 |-> 10 ]

VERSION_SX1272 == 34

\* sx1272_lora_bandwidth_t and sx1272_lora_spreading_factor_t
SX1272_BW_125_KHZ == 0
SX1272_BW_250_KHZ == 1
SX1272_BW_500_KHZ == 2
SX1272_SF11 == 11
SX1272_SF12 == 12

\* below this channel frequency the boosted amplifier path is used
SX1272_RF_MID_BAND_THRESH == 525000000

RXLORA_RXMODE_RSSI_REG_MODEM_CONFIG1 == 10
RXLORA_RXMODE_RSSI_REG_MODEM_CONFIG2 == 112

RSSI_OFFSET == 0 - 139

\* depth of the worker's message queue (msg_init_queue)
MSG_QUEUE_SIZE == 8

\* the registers whose content the driver reads back: each holds the byte
\* last written to it.  The other registers are written and never read, or
\* are status registers answered by the chip.
ConfigRegs ==
    { REG.OPMODE, REG.LR_INVERTIQ, REG.DIOMAPPING1, REG.DIOMAPPING2,
      REG.PACONFIG, REG.PADAC }

(***************************************************************************)
(* C integer operators on bytes.                                           *)
(***************************************************************************)
RECURSIVE BitAnd(_, _)
BitAnd(a, b) ==
    IF a = 0 \/ b = 0 THEN 0
    ELSE (a % 2) * (b % 2) + 2 * BitAnd(a \div 2, b \div 2)

RECURSIVE BitOr(_, _)
BitOr(a, b) ==
    IF a = 0 THEN b
    ELSE IF b = 0 THEN a
    ELSE (IF a % 2 = 1 \/ b % 2 = 1 THEN 1 ELSE 0)
         + 2 * BitOr(a \div 2, b \div 2)

\* ~x of an int, as seen after masking with a byte
BitNot8(a) == 255 - a

(***************************************************************************)
(* State.                                                                  *)
(***************************************************************************)
VARIABLES
    \* board configuration held in sx1272_t (fixed after construction)
    dio_pins,            \* the DIO lines 0..5 whose pin is not GPIO_UNDEF
    rfswitch_pin,        \* TRUE iff rfswitch_pin is not GPIO_UNDEF
    rfswitch_mode,       \* "ACTIVE_LOW" or "ACTIVE_HIGH"
    event_cb,            \* TRUE iff sx1272_event_cb is not NULL
    cadmode,             \* "CADDONE" or "CADDETECT"
    channel,             \* settings.channel
    \* the chip
    regs,                \* configuration registers, by address
    \* lines driven by the driver
    irq_en,              \* per DIO line: callback registered and enabled
    rfswitch,            \* level of the RF switch line, 0 or 1
    \* sx1272_t
    state,               \* settings.state
    modem,               \* settings.modem
    lora,                \* settings.lora
    tx_timer,            \* _internal.tx_timeout_timer is armed
    rx_timer,            \* _internal.rx_timeout_timer is armed
    last_packet,         \* _internal.last_packet
    last_channel,        \* _internal.last_channel
    is_last_cad_success, \* _internal.is_last_cad_success
    req_mode,            \* the op_mode last passed to sx1272_set_op_mode,
                         \* -1 before the first call
    pid,                 \* _internal.dio_polling_thread_pid is set
    \* worker task
    queue,               \* its message queue
    \* control
    init_result,         \* "NONE" before sx1272_init, then its result
    \* history of the operation in progress
    oplog,               \* calls made by the last operation, in order
    last_op,             \* the last operation
    ctx,                 \* context the last operation ran in
    cycle,               \* "TX" or "RX": the cycle last started by
                         \* sx1272_send or sx1272_set_rx; "NONE" before
    cycle_events,        \* terminal events of that cycle emitted since it
                         \* started, up to MaxEvents
    \* history of the worker's message queue
    posted,              \* DIO lines whose interrupt posted a message
    dispatched,          \* handlers the worker ran, in order
    \* the serial bus, one register access at a time per context
    spi_owner,           \* the context owning the bus, or "none"
    nss,                 \* level of the chip-select line: 0 is asserted
    irq_disabled,        \* per context: it has interrupts disabled
    bus_frame,           \* per context: the steps of its access in
                         \* progress, << >> when it has none
    bus_done             \* per context: the steps of its current or last
                         \* access done so far

cfgvars == << dio_pins, rfswitch_pin, rfswitch_mode, event_cb, cadmode,
             channel >>

devvars == << regs, irq_en, rfswitch, state, modem, lora, tx_timer, rx_timer,
              last_packet, last_channel, is_last_cad_success,
              req_mode, oplog >>

vars == << dio_pins, rfswitch_pin, rfswitch_mode, event_cb, cadmode, channel,
           regs, irq_en, rfswitch, state, modem, lora, tx_timer, rx_timer,
           last_packet, last_channel, is_last_cad_success, req_mode,
           pid, queue, init_result, oplog, last_op, ctx, cycle,
           cycle_events, posted, dispatched,
           spi_owner, nss, irq_disabled, bus_frame, bus_done >>

histvars == << posted, dispatched >>

busvars == << spi_owner, nss, irq_disabled, bus_frame, bus_done >>

\* the contexts that issue register accesses
BusCtx == { "caller", "worker" }

\* no access in progress, chip-select deasserted
BusIdle ==
    /\ spi_owner = "none"
    /\ nss = 1
    /\ irq_disabled = [ c \in BusCtx |-> FALSE ]
    /\ bus_frame = [ c \in BusCtx |-> << >> ]
    /\ bus_done = [ c \in BusCtx |-> << >> ]

DioLines == 0 .. 5

Byte == 0 .. 255

\* the device as the driver functions see it
Dev ==
    [ regs |-> regs, irq_en |-> irq_en, rfswitch |-> rfswitch,
      state |-> state, modem |-> modem, lora |-> lora,
      tx_timer |-> tx_timer, rx_timer |-> rx_timer,
      last_packet |-> last_packet,
      last_channel |-> last_channel,
      is_last_cad_success |-> is_last_cad_success,
      req_mode |-> req_mode, oplog |-> oplog ]

\* the device record d becomes the next state of the device
Commit(d) ==
    /\ regs' = d.regs
    /\ irq_en' = d.irq_en
    /\ rfswitch' = d.rfswitch
    /\ state' = d.state
    /\ modem' = d.modem
    /\ lora' = d.lora
    /\ tx_timer' = d.tx_timer
    /\ rx_timer' = d.rx_timer
    /\ last_packet' = d.last_packet
    /\ last_channel' = d.last_channel
    /\ is_last_cad_success' = d.is_last_cad_success
    /\ req_mode' = d.req_mode
    /\ oplog' = d.oplog

\* a new operation begins: its call log is empty
Begin == [ Dev EXCEPT !.oplog = << >> ]

Log(d, kind, a, b) == [ d EXCEPT !.oplog = Append(@, << kind, a, b >>) ]

\* a new operation begins with the argument arg
Call(arg) == Log(Begin, "call", arg, 0)

(***************************************************************************)
(* Register access facade.  A configuration register holds the byte last   *)
(* written to it; the other registers are answered by the chip, and the    *)
(* value read is an input of the operation.                                *)
(***************************************************************************)
sx1272_reg_write(d, addr, data) ==
    Log([ d EXCEPT !.regs = IF addr \in ConfigRegs
                             THEN [ @ EXCEPT ![addr] = data ]
                             ELSE @ ],
        "w", addr, data)

\* the byte a read of a configuration register returns
sx1272_reg_read(d, addr) == d.regs[addr]

\* the read itself, as the bus sees it; v is the byte returned
sx1272_reg_read_burst(d, addr, v) == Log(d, "r", addr, v)

sx1272_write_fifo(d, buffer) == Log(d, "wfifo", REG.LR_FIFO, Len(buffer))

\* the read stopping one byte short
sx1272_read_fifo_one_short(d, size) == Log(d, "rfifo", REG.LR_FIFO, size - 1)

sx1272_read_fifo(d, size) == Log(d, "rfifo", REG.LR_FIFO, size)

\* read a configuration register, then write (value read & mask) | bits
\* back to it
ReadModifyWrite(d, addr, mask, bits) ==
    LET v == sx1272_reg_read(d, addr)
    IN  sx1272_reg_write(sx1272_reg_read_burst(d, addr, v), addr,
                         BitOr(BitAnd(v, mask), bits))

sx1272_set_status(d, s) == [ d EXCEPT !.state = s ]

send_event(d, event_type) ==
    IF event_cb THEN Log(d, "event", event_type, 0) ELSE d

\* the call that arms nothing
xtimer_set_tx_not_armed(d) == d

xtimer_set_tx(d) == Log([ d EXCEPT !.tx_timer = TRUE ], "tx_timer_set", 0, 0)

\* the call that arms nothing
xtimer_set_rx_not_armed(d) == d

xtimer_set_rx(d) == Log([ d EXCEPT !.rx_timer = TRUE ], "rx_timer_set", 0, 0)

\* the call leaving the TX timer armed
xtimer_remove_tx_still_armed(d) == Log(d, "tx_timer_remove", 0, 0)

xtimer_remove_tx(d) ==
    Log([ d EXCEPT !.tx_timer = FALSE ], "tx_timer_remove", 0, 0)

\* the call leaving the RX timer armed
xtimer_remove_rx_still_armed(d) == Log(d, "rx_timer_remove", 0, 0)

xtimer_remove_rx(d) ==
    Log([ d EXCEPT !.rx_timer = FALSE ], "rx_timer_remove", 0, 0)

(***************************************************************************)
(* Mode state machine.                                                     *)
(***************************************************************************)
\* the DIO lines sx1272_set_op_mode enables and disables
OpModeDioLines == { 0, 1, 2, 3 }

\* level of the RF switch line at its disabled bias
RfSwitchDisabledLevel == IF rfswitch_mode = "ACTIVE_LOW" THEN 1 ELSE 0

\* level of the RF switch line at its enabled bias
RfSwitchEnabledLevel == IF rfswitch_mode = "ACTIVE_LOW" THEN 0 ELSE 1

sx1272_set_op_mode(d, op_mode) ==
    LET cur  == sx1272_reg_read(d, REG.OPMODE)
        \* the static op_mode_prev is assigned on every call before it is
        \* read, so the value it keeps between calls is never observed
        op_mode_prev == BitAnd(cur, BitNot8(RF.OPMODE_MASK))
        d0   == Log([ d EXCEPT !.req_mode = op_mode ], "op_mode", op_mode, 0)
        d1   == sx1272_reg_read_burst(d0, REG.OPMODE, cur)
        d2   == IF op_mode # op_mode_prev
                THEN sx1272_reg_write(d1, REG.OPMODE,
                         BitOr(BitAnd(op_mode_prev, RF.OPMODE_MASK), op_mode))
                ELSE d1
    IN  IF op_mode = RF.OPMODE_SLEEP
        THEN [ d2 EXCEPT
                 !.irq_en = [ i \in DioLines |->
                                IF i \in OpModeDioLines /\ i \in dio_pins
                                THEN FALSE ELSE @[i] ],
                 !.rfswitch = IF rfswitch_pin
                              THEN RfSwitchDisabledLevel ELSE @ ]
        ELSE [ d2 EXCEPT
                 !.irq_en = [ i \in DioLines |->
                                IF i \in OpModeDioLines /\ i \in dio_pins
                                THEN TRUE ELSE @[i] ],
                 !.rfswitch = IF rfswitch_pin
                              THEN RfSwitchEnabledLevel ELSE @ ]

sx1272_set_sleep(d) ==
    sx1272_set_status(
        sx1272_set_op_mode(xtimer_remove_rx(xtimer_remove_tx(d)),
                           RF.OPMODE_SLEEP),
        "IDLE")

\* standby requested with the timers left as they are
sx1272_set_standby_keeps_timers(d) ==
    sx1272_set_status(sx1272_set_op_mode(d, RF.OPMODE_STANDBY), "IDLE")

sx1272_set_standby(d) ==
    sx1272_set_status(
        sx1272_set_op_mode(xtimer_remove_rx(xtimer_remove_tx(d)),
                           RF.OPMODE_STANDBY),
        "IDLE")

sx1272_set_modem(d, m) ==
    LET d0 == [ d EXCEPT !.modem = m ]
        d1 == sx1272_set_op_mode(d0, RF.OPMODE_SLEEP)
        on == IF m = "LORA" THEN RFLR.OPMODE_LONGRANGEMODE_ON
                            ELSE RFLR.OPMODE_LONGRANGEMODE_OFF
        d2 == ReadModifyWrite(d1, REG.OPMODE,
                              RFLR.OPMODE_LONGRANGEMODE_MASK, on)
        d3 == sx1272_reg_write(d2, REG.DIOMAPPING1, 0)
    IN  IF m = "LORA" THEN sx1272_reg_write(d3, REG.DIOMAPPING2, 16)
                      ELSE d3

(***************************************************************************)
(* Channel programming.                                                    *)
(***************************************************************************)
\* (uint32_t)((double) freq / SX1272_FREQ_STEP), SX1272_FREQ_STEP being
\* 61.03515625 = 15625 / 256; computed without leaving 32 bits
FreqToFrf(freq) ==
    (freq \div 15625) * 256 + ((freq % 15625) * 256) \div 15625

\* sx1272_set_channel restoring the mode through sx1272_set_op_mode, which
\* writes the mode field only
sx1272_set_channel_masked_restore(d, freq) ==
    LET prev_mode == sx1272_reg_read(d, REG.OPMODE)
        d0  == sx1272_reg_read_burst(d, REG.OPMODE, prev_mode)
        d1  == sx1272_set_op_mode(d0, RF.OPMODE_STANDBY)
        frf == FreqToFrf(freq)
        d2  == sx1272_reg_write(d1, REG.FRFMSB, (frf \div 65536) % 256)
        d3  == sx1272_reg_write(d2, REG.FRFMID, (frf \div 256) % 256)
        d4  == sx1272_reg_write(d3, REG.FRFLSB, frf % 256)
    IN  sx1272_reg_write(d4, REG.OPMODE,
                         BitAnd(prev_mode, BitNot8(RF.OPMODE_MASK)))

sx1272_set_channel(d, freq) ==
    LET prev_mode == sx1272_reg_read(d, REG.OPMODE)
        d0  == sx1272_reg_read_burst(d, REG.OPMODE, prev_mode)
        d1  == sx1272_set_op_mode(d0, RF.OPMODE_STANDBY)
        frf == FreqToFrf(freq)
        d2  == sx1272_reg_write(d1, REG.FRFMSB, (frf \div 65536) % 256)
        d3  == sx1272_reg_write(d2, REG.FRFMID, (frf \div 256) % 256)
        d4  == sx1272_reg_write(d3, REG.FRFLSB, frf % 256)
    IN  sx1272_reg_write(d4, REG.OPMODE, prev_mode)

(***************************************************************************)
(* Transmit, receive, channel activity detection.                          *)
(***************************************************************************)

\* the number of samples sx1272_random takes
RANDOM_SAMPLES == 32

InvertIq(d, rx, tx, iq2) ==
    sx1272_reg_write(
        ReadModifyWrite(d, REG.LR_INVERTIQ,
                        BitAnd(RFLR.INVERTIQ_TX_MASK, RFLR.INVERTIQ_RX_MASK),
                        BitOr(rx, tx)),
        REG.LR_INVERTIQ2, iq2)

sx1272_send(d, buffer) ==
    LET size == Len(buffer)
        \* case SX1272_MODEM_LORA
        l0 == IF d.lora.iq_inverted
              THEN InvertIq(d, RFLR.INVERTIQ_RX_OFF, RFLR.INVERTIQ_TX_ON,
                            RFLR.INVERTIQ2_ON)
              ELSE InvertIq(d, RFLR.INVERTIQ_RX_OFF, RFLR.INVERTIQ_TX_OFF,
                            RFLR.INVERTIQ2_OFF)
        l1 == sx1272_reg_write(l0, REG.LR_PAYLOADLENGTH, size)
        l2 == sx1272_reg_write(l1, REG.LR_FIFOTXBASEADDR, 0)
        l3 == sx1272_reg_write(l2, REG.LR_FIFOADDRPTR, 0)
        cur == sx1272_reg_read(l3, REG.OPMODE)
        l4 == sx1272_reg_read_burst(l3, REG.OPMODE, cur)
        l5 == IF BitAnd(cur, BitNot8(RF.OPMODE_MASK)) = RF.OPMODE_SLEEP
              THEN sx1272_set_standby(l4)
              ELSE l4
        l6 == sx1272_write_fifo(l5, buffer)
        \* case SX1272_MODEM_FSK
        f1 == sx1272_write_fifo(sx1272_write_fifo(d, << size >>), buffer)
        m0 == IF d.modem = "LORA" THEN l6 ELSE f1
        m1 == sx1272_reg_write(m0, REG.LR_IRQFLAGSMASK,
                  RFLR.IRQFLAGS_RXTIMEOUT + RFLR.IRQFLAGS_RXDONE
                  + RFLR.IRQFLAGS_PAYLOADCRCERROR + RFLR.IRQFLAGS_VALIDHEADER
                  + RFLR.IRQFLAGS_CADDONE + RFLR.IRQFLAGS_FHSSCHANGEDCHANNEL
                  + RFLR.IRQFLAGS_CADDETECTED)
        m2 == ReadModifyWrite(m1, REG.DIOMAPPING1,
                              RFLR.DIOMAPPING1_DIO0_MASK,
                              RFLR.DIOMAPPING1_DIO0_01)
        m3 == xtimer_set_tx(m2)
        m4 == sx1272_set_status(m3, "TX_RUNNING")
    IN  sx1272_set_op_mode(m4, RF.OPMODE_TRANSMITTER)

sx1272_set_rx(d, timeout) ==
    LET \* case SX1272_MODEM_LORA
        l0 == IF d.lora.iq_inverted
              THEN InvertIq(d, RFLR.INVERTIQ_RX_ON, RFLR.INVERTIQ_TX_OFF,
                            RFLR.INVERTIQ2_ON)
              ELSE InvertIq(d, RFLR.INVERTIQ_RX_OFF, RFLR.INVERTIQ_TX_OFF,
                            RFLR.INVERTIQ2_OFF)
        l1 == IF d.lora.freq_hop_on
              THEN ReadModifyWrite(
                       sx1272_reg_write(l0, REG.LR_IRQFLAGSMASK,
                           RFLR.IRQFLAGS_VALIDHEADER + RFLR.IRQFLAGS_TXDONE
                           + RFLR.IRQFLAGS_CADDONE
                           + RFLR.IRQFLAGS_CADDETECTED),
                       REG.DIOMAPPING1,
                       BitAnd(RFLR.DIOMAPPING1_DIO0_MASK,
                              RFLR.DIOMAPPING1_DIO2_MASK),
                       BitOr(RFLR.DIOMAPPING1_DIO0_00,
                             RFLR.DIOMAPPING1_DIO2_00))
              ELSE ReadModifyWrite(
                       sx1272_reg_write(l0, REG.LR_IRQFLAGSMASK,
                           RFLR.IRQFLAGS_VALIDHEADER + RFLR.IRQFLAGS_TXDONE
                           + RFLR.IRQFLAGS_CADDONE
                           + RFLR.IRQFLAGS_FHSSCHANGEDCHANNEL
                           + RFLR.IRQFLAGS_CADDETECTED),
                       REG.DIOMAPPING1, RFLR.DIOMAPPING1_DIO0_MASK,
                       RFLR.DIOMAPPING1_DIO0_00)
        l2 == sx1272_reg_write(l1, REG.LR_FIFORXBASEADDR, 0)
        l3 == sx1272_reg_write(l2, REG.LR_FIFOADDRPTR, 0)
        rx_continuous == IF d.modem = "LORA" THEN d.lora.rx_continuous
                                             ELSE FALSE
        m0 == IF d.modem = "LORA" THEN l3 ELSE d
        m1 == sx1272_set_status(m0, "RX_RUNNING")
    IN  IF rx_continuous
        THEN sx1272_set_op_mode(m1, RF.OPMODE_RECEIVER)
        ELSE sx1272_set_op_mode(IF timeout # 0 THEN xtimer_set_rx(m1)
                                               ELSE m1,
                                RFLR.OPMODE_RECEIVER_SINGLE)

sx1272_start_cad(d) ==
    LET reg == RFLR.IRQFLAGS_RXTIMEOUT + RFLR.IRQFLAGS_RXDONE
               + RFLR.IRQFLAGS_PAYLOADCRCERROR + RFLR.IRQFLAGS_VALIDHEADER
               + RFLR.IRQFLAGS_TXDONE + RFLR.IRQFLAGS_FHSSCHANGEDCHANNEL
               + (IF cadmode = "CADDONE" THEN RFLR.IRQFLAGS_CADDETECTED
                                         ELSE RFLR.IRQFLAGS_CADDONE)
        l0 == sx1272_reg_write(d, REG.LR_IRQFLAGSMASK, reg)
        l1 == IF cadmode = "CADDONE"
              THEN ReadModifyWrite(l0, REG.DIOMAPPING1,
                                   RFLR.DIOMAPPING1_DIO3_MASK,
                                   RFLR.DIOMAPPING1_DIO3_00)
              ELSE ReadModifyWrite(l0, REG.DIOMAPPING2,
                                   RFLR.DIOMAPPING2_DIO4_MASK,
                                   RFLR.DIOMAPPING2_DIO4_00)
        l2 == sx1272_set_status(l1, "CAD")
    IN  IF d.modem = "LORA" THEN sx1272_set_op_mode(l2, RFLR.OPMODE_CAD)
                            ELSE d

\* raw is the byte the chip answers; the dBm value is returned to the caller
sx1272_read_rssi(d, raw) ==
    IF d.modem = "LORA" THEN sx1272_reg_read_burst(d, REG.LR_RSSIVALUE, raw)
                        ELSE sx1272_reg_read_burst(d, REG.RSSIVALUE, raw)

sx1272_is_channel_free(d, freq, raw) ==
    sx1272_set_sleep(
        sx1272_read_rssi(
            sx1272_set_op_mode(sx1272_set_channel(d, freq),
                               RF.OPMODE_RECEIVER),
            raw))

\* the sampling loop: RANDOM_SAMPLES reads of the wideband RSSI register
RandomSamples(d, bits) ==
    [ d EXCEPT !.oplog =
        @ \o [ i \in 1 .. RANDOM_SAMPLES |->
                 << "r", REG.LR_RSSIWIDEBAND, bits[i] >> ] ]

\* bits is the sequence of bytes the wideband RSSI register answers
sx1272_random(d, bits) ==
    LET d0 == sx1272_set_modem(d, "LORA")
        d1 == sx1272_reg_write(d0, REG.LR_IRQFLAGSMASK,
                  RFLR.IRQFLAGS_RXTIMEOUT + RFLR.IRQFLAGS_RXDONE
                  + RFLR.IRQFLAGS_PAYLOADCRCERROR + RFLR.IRQFLAGS_VALIDHEADER
                  + RFLR.IRQFLAGS_TXDONE + RFLR.IRQFLAGS_CADDONE
                  + RFLR.IRQFLAGS_FHSSCHANGEDCHANNEL
                  + RFLR.IRQFLAGS_CADDETECTED)
        d2 == sx1272_set_op_mode(d1, RF.OPMODE_STANDBY)
        d3 == sx1272_reg_write(d2, REG.LR_MODEMCONFIG1,
                               RXLORA_RXMODE_RSSI_REG_MODEM_CONFIG1)
        d4 == sx1272_reg_write(d3, REG.LR_MODEMCONFIG1,
                               RXLORA_RXMODE_RSSI_REG_MODEM_CONFIG2)
        d5 == sx1272_set_op_mode(d4, RF.OPMODE_RECEIVER)
    IN  sx1272_set_sleep(RandomSamples(d5, bits))

sx1272_set_max_payload_len(d, m, maxlen) ==
    LET d0 == sx1272_set_modem(d, m)
    IN  IF m = "LORA"
        THEN sx1272_reg_write(d0, REG.LR_PAYLOADMAXLENGTH, maxlen)
        ELSE d0

(***************************************************************************)
(* LoRa configuration and the power amplifier policy.                      *)
(***************************************************************************)
sx1272_get_pa_select(ch) ==
    IF ch < SX1272_RF_MID_BAND_THRESH THEN RF.PACONFIG_PASELECT_PABOOST
                                      ELSE RF.PACONFIG_PASELECT_RFO

\* the 4-bit field (uint8_t)((uint16_t)(v) & 0x0F)
OutputPowerField(v) == BitAnd(v % 65536, 15)

\* the policy writing the encoded field back as the power setting
setup_power_amplifier_stores_field(d) ==
    LET pa_config0 == sx1272_reg_read(d, REG.PACONFIG)
        pa_dac0    == sx1272_reg_read(d, REG.PADAC)
        d0 == sx1272_reg_read_burst(
                  sx1272_reg_read_burst(d, REG.PACONFIG, pa_config0),
                  REG.PADAC, pa_dac0)
        pa_config1 == BitOr(BitAnd(pa_config0, RF.PACONFIG_PASELECT_MASK),
                            sx1272_get_pa_select(channel))
        boost == BitAnd(pa_config1, RF.PACONFIG_PASELECT_PABOOST)
                     = RF.PACONFIG_PASELECT_PABOOST
        p0 == d.lora.power
        pa_dac1 == IF ~boost THEN pa_dac0
                   ELSE BitOr(BitAnd(pa_dac0, RF.PADAC_20DBM_MASK),
                              IF p0 > 17 THEN RFLR.PADAC_20DBM_ON
                                         ELSE RFLR.PADAC_20DBM_OFF)
        stage == BitAnd(pa_dac1, RFLR.PADAC_20DBM_ON) = RFLR.PADAC_20DBM_ON
        lo == IF boost THEN (IF stage THEN 5 ELSE 2) ELSE 0 - 1
        hi == IF boost THEN (IF stage THEN 20 ELSE 17) ELSE 14
        p1 == IF p0 < lo THEN lo ELSE IF p0 > hi THEN hi ELSE p0
        pa_config2 == BitOr(BitAnd(pa_config1,
                                   RFLR.PACONFIG_OUTPUTPOWER_MASK),
                            OutputPowerField(p1 - lo))
        d1 == [ d0 EXCEPT !.lora.power = OutputPowerField(p1 - lo) ]
    IN  sx1272_reg_write(sx1272_reg_write(d1, REG.PACONFIG, pa_config2),
                         REG.PADAC, pa_dac1)

\* the policy encoding every path with the offset of the stage-off path
setup_power_amplifier_one_offset(d) ==
    LET pa_config0 == sx1272_reg_read(d, REG.PACONFIG)
        pa_dac0    == sx1272_reg_read(d, REG.PADAC)
        d0 == sx1272_reg_read_burst(
                  sx1272_reg_read_burst(d, REG.PACONFIG, pa_config0),
                  REG.PADAC, pa_dac0)
        pa_config1 == BitOr(BitAnd(pa_config0, RF.PACONFIG_PASELECT_MASK),
                            sx1272_get_pa_select(channel))
        boost == BitAnd(pa_config1, RF.PACONFIG_PASELECT_PABOOST)
                     = RF.PACONFIG_PASELECT_PABOOST
        p0 == d.lora.power
        pa_dac1 == IF ~boost THEN pa_dac0
                   ELSE BitOr(BitAnd(pa_dac0, RF.PADAC_20DBM_MASK),
                              IF p0 > 17 THEN RFLR.PADAC_20DBM_ON
                                         ELSE RFLR.PADAC_20DBM_OFF)
        stage == BitAnd(pa_dac1, RFLR.PADAC_20DBM_ON) = RFLR.PADAC_20DBM_ON
        lo == IF boost THEN (IF stage THEN 5 ELSE 2) ELSE 0 - 1
        hi == IF boost THEN (IF stage THEN 20 ELSE 17) ELSE 14
        p1 == IF p0 < lo THEN lo ELSE IF p0 > hi THEN hi ELSE p0
        pa_config2 == BitOr(BitAnd(pa_config1,
                                   RFLR.PACONFIG_OUTPUTPOWER_MASK),
                            OutputPowerField(p1 - 2))
        d1 == [ d0 EXCEPT !.lora.power = p1 ]
    IN  sx1272_reg_write(sx1272_reg_write(d1, REG.PACONFIG, pa_config2),
                         REG.PADAC, pa_dac1)

\* lo and hi are the clamp of the path taken; the field is the clamped
\* power less lo
setup_power_amplifier(d) ==
    LET pa_config0 == sx1272_reg_read(d, REG.PACONFIG)
        pa_dac0    == sx1272_reg_read(d, REG.PADAC)
        d0 == sx1272_reg_read_burst(
                  sx1272_reg_read_burst(d, REG.PACONFIG, pa_config0),
                  REG.PADAC, pa_dac0)
        pa_config1 == BitOr(BitAnd(pa_config0, RF.PACONFIG_PASELECT_MASK),
                            sx1272_get_pa_select(channel))
        boost == BitAnd(pa_config1, RF.PACONFIG_PASELECT_PABOOST)
                     = RF.PACONFIG_PASELECT_PABOOST
        p0 == d.lora.power
        pa_dac1 == IF ~boost THEN pa_dac0
                   ELSE BitOr(BitAnd(pa_dac0, RF.PADAC_20DBM_MASK),
                              IF p0 > 17 THEN RFLR.PADAC_20DBM_ON
                                         ELSE RFLR.PADAC_20DBM_OFF)
        stage == BitAnd(pa_dac1, RFLR.PADAC_20DBM_ON) = RFLR.PADAC_20DBM_ON
        lo == IF boost THEN (IF stage THEN 5 ELSE 2) ELSE 0 - 1
        hi == IF boost THEN (IF stage THEN 20 ELSE 17) ELSE 14
        p1 == IF p0 < lo THEN lo ELSE IF p0 > hi THEN hi ELSE p0
        pa_config2 == BitOr(BitAnd(pa_config1,
                                   RFLR.PACONFIG_OUTPUTPOWER_MASK),
                            OutputPowerField(p1 - lo))
        d1 == [ d0 EXCEPT !.lora.power = p1 ]
    IN  sx1272_reg_write(sx1272_reg_write(d1, REG.PACONFIG, pa_config2),
                         REG.PADAC, pa_dac1)

\* the flag derived for spreading factor 12 only
LowDatarateOptimize_sf12(bw, sf) ==
    IF \/ bw = SX1272_BW_125_KHZ /\ sf = SX1272_SF12
       \/ bw = SX1272_BW_250_KHZ /\ sf = SX1272_SF12
    THEN 1 ELSE 0

\* the flag sx1272_configure_lora derives from bandwidth and datarate
LowDatarateOptimize(bw, sf) ==
    IF \/ bw = SX1272_BW_125_KHZ /\ (sf = SX1272_SF11 \/ sf = SX1272_SF12)
       \/ bw = SX1272_BW_250_KHZ /\ sf = SX1272_SF12
    THEN 1 ELSE 0

\* settings is << >> for NULL or holds one settings record; hw holds the bytes the chip
\* answers for the registers read: cfg1, cfg2, pllhop, lna
sx1272_configure_lora(d, settings, hw) ==
    LET \* the settings taken over, with the derived low-datarate flag
        Settings(x) ==
            [ x EXCEPT !.lora =
                LET l0 == IF settings = << >> THEN @ ELSE settings[1]
                IN  [ l0 EXCEPT !.low_datarate_optimize =
                        LowDatarateOptimize(l0.bandwidth, l0.datarate) ] ]
        \* if (settings->implicit_header)
        PayloadLength(x) ==
            IF x.lora.implicit_header # 0
            THEN sx1272_reg_write(x, REG.LR_PAYLOADLENGTH, x.lora.payload_len)
            ELSE x
        \* if (settings->freq_hop_on)
        FreqHop(x) ==
            IF x.lora.freq_hop_on
            THEN sx1272_reg_write(
                   sx1272_reg_write(
                     sx1272_reg_read_burst(x, REG.LR_PLLHOP, hw.pllhop),
                     REG.LR_PLLHOP,
                     BitOr(BitAnd(hw.pllhop, RFLR.PLLHOP_FASTHOP_MASK),
                           RFLR.PLLHOP_FASTHOP_ON)),
                   REG.LR_HOPPERIOD, x.lora.hop_period)
            ELSE x
        \* the registers programmed on the device x, whose settings are l
        Program(x) ==
            LET l == x.lora
                cfg1 == BitOr(
                  BitAnd(hw.cfg1,
                    BitAnd(RFLR.MODEMCONFIG1_BW_MASK,
                    BitAnd(RFLR.MODEMCONFIG1_CODINGRATE_MASK,
                    BitAnd(RFLR.MODEMCONFIG1_IMPLICITHEADER_MASK,
                    BitAnd(RFLR.MODEMCONFIG1_RXPAYLOADCRC_MASK,
                           RFLR.MODEMCONFIG1_LOWDATARATEOPTIMIZE_MASK))))),
                  BitOr(l.bandwidth * 64,
                  BitOr(l.coderate * 8,
                  BitOr(l.implicit_header * 4,
                  BitOr(l.crc_on * 2, l.low_datarate_optimize))))) % 256
                d2 == sx1272_reg_write(
                        sx1272_reg_read_burst(x, REG.LR_MODEMCONFIG1, hw.cfg1),
                        REG.LR_MODEMCONFIG1, cfg1)
                cfg2 == BitOr(
                  BitOr(BitAnd(hw.cfg2,
                               BitAnd(RFLR.MODEMCONFIG2_SF_MASK,
                                      RFLR.MODEMCONFIG2_SYMBTIMEOUTMSB_MASK)),
                        l.datarate * 16),
                  BitAnd(l.rx_timeout \div 256,
                         BitNot8(RFLR.MODEMCONFIG2_SYMBTIMEOUTMSB_MASK)))
                  % 256
                d3 == sx1272_reg_write(
                        sx1272_reg_read_burst(d2, REG.LR_MODEMCONFIG2, hw.cfg2),
                        REG.LR_MODEMCONFIG2, cfg2)
                d4 == sx1272_reg_write(d3, REG.LR_SYMBTIMEOUTLSB,
                                       l.rx_timeout % 256)
                d5 == sx1272_reg_write(d4, REG.LR_PREAMBLEMSB,
                                       (l.preamble_len \div 256) % 256)
                d6 == sx1272_reg_write(d5, REG.LR_PREAMBLELSB,
                                       l.preamble_len % 256)
                d9 == setup_power_amplifier(FreqHop(PayloadLength(d6)))
                d10 == sx1272_reg_write(
                         sx1272_reg_read_burst(d9, REG.LR_LNA, hw.lna),
                         REG.LR_LNA,
                         BitOr(BitAnd(hw.lna, RFLR.LNA_BOOST_MASK),
                               RFLR.LNA_BOOST_ON))
                \* the chip answers the byte just written to modem-config 2
                d11 == sx1272_reg_write(
                         sx1272_reg_read_burst(d10, REG.LR_MODEMCONFIG2, cfg2),
                         REG.LR_MODEMCONFIG2,
                         BitOr(BitAnd(cfg2, RFLR.MODEMCONFIG2_AGCAUTO_MASK),
                               RFLR.MODEMCONFIG2_AGCAUTO_ON))
                d12 == sx1272_reg_write(d11, REG.LR_DETECTOPTIMIZE,
                                        RFLR.DETECTIONOPTIMIZE_SF7_TO_SF12)
            IN  sx1272_reg_write(d12, REG.LR_DETECTIONTHRESHOLD,
                                 RFLR.DETECTIONTHRESH_SF7_TO_SF12)
    IN  Program(Settings(sx1272_set_modem(d, "LORA")))

sx1272_configure_lora_bw(d, bw, hw) ==
    sx1272_configure_lora([ d EXCEPT !.lora.bandwidth = bw ], << >>, hw)

sx1272_configure_lora_sf(d, sf, hw) ==
    sx1272_configure_lora([ d EXCEPT !.lora.datarate = sf ], << >>, hw)

sx1272_configure_lora_cr(d, cr, hw) ==
    sx1272_configure_lora([ d EXCEPT !.lora.coderate = cr ], << >>, hw)

(***************************************************************************)
(* Time on air.  The function computes in double; every quantity below is  *)
(* the exact value, a whole number of quarter symbols and of microseconds, *)
(* which the rounding floor(t * 1e6 + 0.999) leaves as it is.              *)
(***************************************************************************)
\* ceil(n / m) for m > 0
CeilDiv(n, m) == IF n >= 0 THEN (n + m - 1) \div m ELSE 0 - ((0 - n) \div m)

\* bw of the switch on settings.lora.bandwidth, in Hz
BandwidthHz(bandwidth) ==
    CASE bandwidth = 0 -> 125000
      [] bandwidth = 1 -> 250000
      [] bandwidth = 2 -> 500000

\* ts / 4 in microseconds: a quarter of 1 / (bw / (1 << datarate))
QuarterSymbolUs(l) == (2 ^ l.datarate * 250000) \div BandwidthHz(l.bandwidth)

\* n_payload: 8 + (tmp > 0 ? tmp : 0)
PayloadSymbols(l, pkt_len) ==
    LET num == 8 * pkt_len - 4 * l.datarate + 28 + 16 * l.crc_on
                 - (IF l.implicit_header = 0 THEN 20 ELSE 0)
        den == 4 * l.datarate
                 - (IF l.low_datarate_optimize > 0 THEN 2 ELSE 0)
        tmp == CeilDiv(num, den) * (l.coderate + 4)
    IN  8 + (IF tmp > 0 THEN tmp ELSE 0)

sx1272_get_time_on_air(d, m, pkt_len) ==
    IF m = "FSK" THEN 0
    ELSE (4 * d.lora.preamble_len + 17 + 4 * PayloadSymbols(d.lora, pkt_len))
             * QuarterSymbolUs(d.lora)

(***************************************************************************)
(* Timeout timer callbacks (they run in the timer's interrupt context).    *)
(***************************************************************************)
_on_tx_timeout(d) == send_event([ d EXCEPT !.tx_timer = FALSE ], "TX_TIMEOUT")

_on_rx_timeout(d) == send_event([ d EXCEPT !.rx_timer = FALSE ], "RX_TIMEOUT")

(***************************************************************************)
(* Per-line handlers, run by the worker task.  hw is what the chip answers *)
(* to the handler's reads of its status registers.                         *)
(***************************************************************************)
\* the IRQ flags the chip holds once the driver has written clear to
\* REG_LR_IRQFLAGS: the flags written as 1 are cleared, the others kept
IrqFlagsAfterClear(flags, clear) == BitAnd(flags, BitNot8(clear))

\* the first Len(new) bytes of the buffer old are overwritten by new
Overwrite(old, new) == new \o SubSeq(old, Len(new) + 1, Len(old))

\* the decode shifting the raw byte whatever its sign bit
DecodeSnr_unsigned(raw) == (raw % 256) \div 4

\* SNR in dB from the raw register byte
DecodeSnr(raw) ==
    IF BitAnd(raw, 128) # 0
    THEN 0 - ((((255 - raw) + 1) % 256) \div 4)
    ELSE (raw % 256) \div 4

\* packet RSSI in dBm from the raw register byte and the decoded SNR
DecodeRssi(rssi, snr) ==
    IF snr < 0 THEN RSSI_OFFSET + rssi + (rssi \div 16) + snr
               ELSE RSSI_OFFSET + rssi + (rssi \div 16)

sx1272_on_dio0(d, hw) ==
    LET \* case SX1272_RF_RX_RUNNING, SX1272_MODEM_LORA
        r0 == sx1272_reg_write(d, REG.LR_IRQFLAGS, RFLR.IRQFLAGS_RXDONE)
        irq_flags == IrqFlagsAfterClear(hw.irq_flags, RFLR.IRQFLAGS_RXDONE)
        r1 == sx1272_reg_read_burst(r0, REG.LR_IRQFLAGS, irq_flags)
        \* CRC error
        c0 == sx1272_reg_write(r1, REG.LR_IRQFLAGS,
                               RFLR.IRQFLAGS_PAYLOADCRCERROR)
        c1 == IF ~d.lora.rx_continuous THEN sx1272_set_status(c0, "IDLE")
                                       ELSE c0
        c2 == send_event(xtimer_remove_rx(c1), "RX_ERROR_CRC")
        \* packet received
        snr == DecodeSnr(hw.snr)
        size == Len(hw.fifo)
        p0 == sx1272_reg_read_burst(r1, REG.LR_PKTSNRVALUE, hw.snr)
        p1 == sx1272_reg_read_burst(p0, REG.LR_PKTRSSIVALUE, hw.rssi)
        p2 == sx1272_reg_read_burst(p1, REG.LR_RXNBBYTES, size)
        p3 == IF ~d.lora.rx_continuous THEN sx1272_set_status(p2, "IDLE")
                                       ELSE p2
        p4 == xtimer_remove_rx(p3)
        p5 == sx1272_reg_read_burst(p4, REG.LR_FIFORXCURRENTADDR, hw.rx_addr)
        p6 == sx1272_reg_write(p5, REG.LR_FIFOADDRPTR, hw.rx_addr)
        p7 == [ sx1272_read_fifo(p6, size) EXCEPT
                  !.last_packet =
                      [ snr_value |-> hw.snr,
                        rssi_value |-> DecodeRssi(hw.rssi, snr),
                        size |-> size,
                        content |-> Overwrite(@.content, hw.fifo) ] ]
        p8 == send_event(p7, "RX_DONE")
        \* case SX1272_RF_TX_RUNNING
        t0 == xtimer_remove_tx(d)
        t1 == sx1272_reg_write(t0, REG.LR_IRQFLAGS, RFLR.IRQFLAGS_TXDONE)
        t2 == send_event(sx1272_set_status(t1, "IDLE"), "TX_DONE")
    IN  CASE d.state = "RX_RUNNING" /\ d.modem = "LORA" ->
                 IF BitAnd(irq_flags, RFLR.IRQFLAGS_PAYLOADCRCERROR_MASK)
                        = RFLR.IRQFLAGS_PAYLOADCRCERROR
                 THEN c2 ELSE p8
          [] d.state = "TX_RUNNING" -> t2
          [] OTHER -> d

sx1272_on_dio1(d) ==
    IF d.state = "RX_RUNNING" /\ d.modem = "LORA"
    THEN send_event(sx1272_set_status(xtimer_remove_rx(d), "IDLE"),
                    "RX_TIMEOUT")
    ELSE d

\* the handler acting while receiving only
sx1272_on_dio2_rx_only(d, hop) ==
    IF /\ d.state = "RX_RUNNING"
       /\ d.modem = "LORA"
       /\ d.lora.freq_hop_on
    THEN LET d0 == sx1272_reg_write(d, REG.LR_IRQFLAGS,
                                    RFLR.IRQFLAGS_FHSSCHANGEDCHANNEL)
             d1 == sx1272_reg_read_burst(d0, REG.LR_HOPCHANNEL, hop)
         IN  send_event([ d1 EXCEPT !.last_channel =
                              BitAnd(hop, RFLR.HOPCHANNEL_CHANNEL_MASK) ],
                        "FHSS_CHANGE_CHANNEL")
    ELSE d

\* hop is the byte the chip answers for its hop-channel register
sx1272_on_dio2(d, hop) ==
    IF /\ d.state \in { "RX_RUNNING", "TX_RUNNING" }
       /\ d.modem = "LORA"
       /\ d.lora.freq_hop_on
    THEN LET d0 == sx1272_reg_write(d, REG.LR_IRQFLAGS,
                                    RFLR.IRQFLAGS_FHSSCHANGEDCHANNEL)
             d1 == sx1272_reg_read_burst(d0, REG.LR_HOPCHANNEL, hop)
         IN  send_event([ d1 EXCEPT !.last_channel =
                              BitAnd(hop, RFLR.HOPCHANNEL_CHANNEL_MASK) ],
                        "FHSS_CHANGE_CHANNEL")
    ELSE d

\* the CAD handlers; flags is the chip's IRQ flags when the handler starts
CadHandler(d, flags, event_type) ==
    IF d.modem = "LORA"
    THEN LET clear == RFLR.IRQFLAGS_CADDETECTED + RFLR.IRQFLAGS_CADDONE
             d0 == sx1272_reg_write(d, REG.LR_IRQFLAGS, clear)
             \* the flags are read back after they were cleared
             irq_flags == IrqFlagsAfterClear(flags, clear)
             d1 == sx1272_reg_read_burst(d0, REG.LR_IRQFLAGS, irq_flags)
         IN  send_event([ d1 EXCEPT !.is_last_cad_success =
                              (BitAnd(irq_flags, RFLR.IRQFLAGS_CADDETECTED)
                                  = RFLR.IRQFLAGS_CADDETECTED) ],
                        event_type)
    ELSE d

sx1272_on_dio3(d, flags) == CadHandler(d, flags, "CAD_DONE")

sx1272_on_dio4(d, flags) == CadHandler(d, flags, "CAD_DETECTED")

sx1272_on_dio5(d) == d

(***************************************************************************)
(* Initialisation.                                                         *)
(***************************************************************************)
\* settings.channel, set by the board before sx1272_init
Channel == 868000000

_init_peripherals(d) ==
    [ d EXCEPT !.rfswitch = IF rfswitch_pin THEN 1 ELSE @ ]

_init_isrs(d) ==
    [ d EXCEPT !.irq_en = [ i \in DioLines |-> i \in dio_pins ] ]

\* the device sx1272_init leaves behind.  spi_ok: SPI and chip-select line
\* set up; version: the byte the chip answers for its version register
sx1272_init(d, spi_ok, version) ==
    LET d0 == _init_isrs(_init_peripherals(d))
        d1 == sx1272_reg_read_burst(d0, REG.VERSION, version)
        d2 == sx1272_reg_write(d1, REG.OPMODE, 0)
        d3 == sx1272_set_modem(d2, "LORA")
    IN  IF ~spi_ok THEN d
        ELSE IF version # VERSION_SX1272 THEN d1
        ELSE sx1272_set_channel(d3, channel)

\* the result when the worker is created before the chip is tested
sx1272_init_result_thread_first(spi_ok, version, thread_ok) ==
    IF ~spi_ok THEN "ERR_SPI"
    ELSE IF ~thread_ok THEN "ERR_THREAD"
    ELSE IF version # VERSION_SX1272 THEN "ERR_TEST_FAILED"
    ELSE "INIT_OK"

\* its result.  thread_ok: thread_create returns a valid pid
sx1272_init_result(spi_ok, version, thread_ok) ==
    IF ~spi_ok THEN "ERR_SPI"
    ELSE IF version # VERSION_SX1272 THEN "ERR_TEST_FAILED"
    ELSE IF ~thread_ok THEN "ERR_THREAD"
    ELSE "INIT_OK"

(***************************************************************************)
(* Inputs.                                                                 *)
(***************************************************************************)
\* the boards: which lines are wired, the RF switch, the CAD variant used,
\* and the LoRa settings the application filled in
LoraDefaults ==
    [ bandwidth |-> SX1272_BW_125_KHZ, datarate |-> 7, coderate |-> 1,
      implicit_header |-> 0, crc_on |-> 1, low_datarate_optimize |-> 0,
      preamble_len |-> 8, payload_len |-> 0, rx_timeout |-> 10,
      hop_period |-> 0, power |-> 14 ]

Boards ==
    { [ dio_pins |-> 0 .. 5, rfswitch_pin |-> TRUE,
        rfswitch_mode |-> "ACTIVE_LOW", cadmode |-> "CADDONE",
        lora |-> [ rx_continuous |-> FALSE, freq_hop_on |-> FALSE,
                   iq_inverted |-> FALSE ]
                @@ LoraDefaults ],
      [ dio_pins |-> 0 .. 3, rfswitch_pin |-> TRUE,
        rfswitch_mode |-> "ACTIVE_HIGH", cadmode |-> "CADDETECT",
        lora |-> [ rx_continuous |-> TRUE, freq_hop_on |-> TRUE,
                   iq_inverted |-> TRUE ]
                @@ LoraDefaults ],
      [ dio_pins |-> { 0, 1, 2, 3, 4 }, rfswitch_pin |-> FALSE,
        rfswitch_mode |-> "ACTIVE_HIGH", cadmode |-> "CADDETECT",
        lora |-> [ rx_continuous |-> FALSE, freq_hop_on |-> TRUE,
                   iq_inverted |-> FALSE ]
                @@ LoraDefaults ] }

\* the modem the application selects: the FSK modem is not supported
Modems == { "LORA" }

Freqs == { 868000000, 433920000 }

Buffers == { << 165, 90 >> }

Timeouts == { 0, 1000 }

Versions == { VERSION_SX1272, 0 }

RxInputs ==
    { [ irq_flags |-> f, snr |-> s, rssi |-> 32, rx_addr |-> 0,
        fifo |-> << 7 >> ] :
      f \in { RFLR.IRQFLAGS_RXDONE,
              RFLR.IRQFLAGS_RXDONE + RFLR.IRQFLAGS_PAYLOADCRCERROR },
      s \in { 252 } }

CadFlags == { RFLR.IRQFLAGS_CADDONE,
              RFLR.IRQFLAGS_CADDONE + RFLR.IRQFLAGS_CADDETECTED }

HopChannels == { 130 }

RandomBits == { [ i \in 1 .. RANDOM_SAMPLES |-> i % 2 ] }

(***************************************************************************)
(* Initial state: the device structure filled in by the board, the chip    *)
(* after power-on reset, sx1272_init not yet called.                       *)
(***************************************************************************)
\* register contents after power-on reset
ResetRegs ==
    [ a \in ConfigRegs |->
        CASE a = REG.OPMODE -> 9
          [] a = REG.LR_INVERTIQ -> 39
          [] a = REG.PACONFIG -> 15
          [] a = REG.PADAC -> 132
          [] OTHER -> 0 ]

Init ==
    /\ \E b \in Boards :
         /\ dio_pins = b.dio_pins
         /\ rfswitch_pin = b.rfswitch_pin
         /\ rfswitch_mode = b.rfswitch_mode
         /\ cadmode = b.cadmode
         /\ lora = b.lora
    /\ event_cb = TRUE
    /\ channel = Channel
    /\ regs = ResetRegs
    /\ irq_en = [ i \in DioLines |-> FALSE ]
    /\ rfswitch = 0
    /\ state = "IDLE"
    /\ modem = "LORA"
    /\ tx_timer = FALSE
    /\ rx_timer = FALSE
    /\ last_packet = [ snr_value |-> 0, rssi_value |-> 0, size |-> 0,
                       content |-> << 0, 0 >> ]
    /\ last_channel = 0
    /\ is_last_cad_success = FALSE
    /\ req_mode = 0 - 1
    /\ pid = FALSE
    /\ queue = << >>
    /\ init_result = "NONE"
    /\ oplog = << >>
    /\ last_op = "none"
    /\ ctx = "none"
    /\ cycle = "NONE"
    /\ cycle_events = 0
    /\ posted = << >>
    /\ dispatched = << >>
    /\ BusIdle

(***************************************************************************)
(* Actions.                                                                *)
(***************************************************************************)
\* the application callbacks made by an operation, in order
Events(log) == SelectSeq(log, LAMBDA e : e[1] = "event")

\* the events that end a send cycle
TxTerminalEvents == { "TX_DONE", "TX_TIMEOUT" }

\* the events that end a receive cycle
RxTerminalEvents == { "RX_DONE", "RX_ERROR_CRC", "RX_TIMEOUT" }

\* the events that end a send or receive cycle
TerminalEvents == TxTerminalEvents \cup RxTerminalEvents

\* the terminal events of a call log that belong to a cycle of kind c
CycleEvents(log, c) ==
    SelectSeq(log, LAMBDA e :
        /\ e[1] = "event"
        /\ \/ c = "TX" /\ e[2] \in TxTerminalEvents
           \/ c = "RX" /\ e[2] \in RxTerminalEvents)

Terminal(log) ==
    SelectSeq(log, LAMBDA e : e[1] = "event" /\ e[2] \in TerminalEvents)

Min(a, b) == IF a < b THEN a ELSE b

\* an operation other than the start of a cycle has run to completion
Step(d, op, c) ==
    /\ Commit(d)
    /\ last_op' = op
    /\ ctx' = c
    /\ cycle_events' = Min(cycle_events + Len(CycleEvents(d.oplog, cycle)),
                           MaxEvents)
    /\ cycle' = cycle

\* a caller operation other than the start of a cycle
CallerOp(d, op) ==
    /\ init_result = "INIT_OK"
    /\ Step(d, op, "caller")
    /\ UNCHANGED << cfgvars, pid, queue, init_result, histvars, busvars >>

Do_sx1272_init ==
    /\ init_result = "NONE"
    /\ \E spi_ok \in BOOLEAN, version \in Versions, thread_ok \in BOOLEAN :
         /\ Step(sx1272_init(Begin, spi_ok, version), "sx1272_init", "caller")
         /\ init_result' = sx1272_init_result(spi_ok, version, thread_ok)
         /\ pid' = (init_result' = "INIT_OK")
    /\ UNCHANGED << cfgvars, queue, histvars, busvars >>

Do_sx1272_set_sleep == CallerOp(sx1272_set_sleep(Begin), "sx1272_set_sleep")

Do_sx1272_set_standby ==
    CallerOp(sx1272_set_standby(Begin), "sx1272_set_standby")

Do_sx1272_set_modem ==
    \E m \in Modems :
        CallerOp(sx1272_set_modem(Begin, m), "sx1272_set_modem")

Do_sx1272_set_channel ==
    \E freq \in Freqs :
        CallerOp(sx1272_set_channel(Call(freq), freq), "sx1272_set_channel")

Do_sx1272_is_channel_free ==
    \E freq \in Freqs :
        CallerOp(sx1272_is_channel_free(Begin, freq, 40),
                 "sx1272_is_channel_free")

Do_sx1272_random ==
    \E bits \in RandomBits :
        CallerOp(sx1272_random(Begin, bits), "sx1272_random")

Do_sx1272_set_max_payload_len ==
    \E m \in Modems :
        CallerOp(sx1272_set_max_payload_len(Begin, m, 64),
                 "sx1272_set_max_payload_len")

Do_sx1272_start_cad == CallerOp(sx1272_start_cad(Begin), "sx1272_start_cad")

Do_sx1272_send ==
    /\ init_result = "INIT_OK"
    /\ \E buffer \in Buffers :
         Commit(sx1272_send(Call(Len(buffer)), buffer))
    /\ last_op' = "sx1272_send"
    /\ ctx' = "caller"
    /\ cycle' = "TX"
    /\ cycle_events' = 0
    /\ UNCHANGED << cfgvars, pid, queue, init_result, histvars, busvars >>

Do_sx1272_set_rx ==
    /\ init_result = "INIT_OK"
    /\ \E timeout \in Timeouts :
         Commit(sx1272_set_rx(Call(timeout), timeout))
    /\ last_op' = "sx1272_set_rx"
    /\ ctx' = "caller"
    /\ cycle' = "RX"
    /\ cycle_events' = 0
    /\ UNCHANGED << cfgvars, pid, queue, init_result, histvars, busvars >>

\* the worker's message queue, as the kernel keeps it: messages leave in
\* the order they were put
msg_queue_put(q, v) == Append(q, v)

msg_queue_first(q) == Head(q)

msg_queue_rest(q) == Tail(q)

\* the value the interrupt callback of DIO line i puts in its message
IsrMsgValue_copied(i) == IF i = 1 THEN 0 ELSE i

IsrMsgValue(i) == i

\* a rising edge on DIO line i runs the line's interrupt callback, which
\* posts its message to the worker
msg_send_int(i) ==
    /\ irq_en[i]
    /\ LET delivered == pid /\ Len(queue) < MSG_QUEUE_SIZE
       IN  /\ queue' = IF delivered
                        THEN msg_queue_put(queue, IsrMsgValue(i))
                        ELSE queue
           /\ Step(Log(Begin, "msg_send_int", i, IF delivered THEN 1 ELSE 0),
                   "sx1272_on_dio_isr", "isr")
    /\ UNCHANGED << cfgvars, pid, init_result, busvars >>

sx1272_on_dio_isr(i) ==
    /\ Len(queue) < MaxPending
    /\ msg_send_int(i)
    /\ UNCHANGED histvars

\* one turn of the worker's loop: receive a message, dispatch on its value
dio_polling_loop ==
    /\ pid
    /\ queue # << >>
    /\ queue' = msg_queue_rest(queue)
    /\ LET v == msg_queue_first(queue)
       IN  CASE v = 0 ->
                  \E hw \in RxInputs :
                      Step(sx1272_on_dio0(Begin, hw), "sx1272_on_dio0",
                           "worker")
             [] v = 1 -> Step(sx1272_on_dio1(Begin), "sx1272_on_dio1",
                              "worker")
             [] v = 2 ->
                  \E hop \in HopChannels :
                      Step(sx1272_on_dio2(Begin, hop), "sx1272_on_dio2",
                           "worker")
             [] v = 3 ->
                  \E flags \in CadFlags :
                      Step(sx1272_on_dio3(Begin, flags), "sx1272_on_dio3",
                           "worker")
             [] v = 4 ->
                  \E flags \in CadFlags :
                      Step(sx1272_on_dio4(Begin, flags), "sx1272_on_dio4",
                           "worker")
             [] v = 5 -> Step(sx1272_on_dio5(Begin), "sx1272_on_dio5",
                              "worker")
    /\ UNCHANGED << cfgvars, pid, init_result, busvars >>

dio_polling_thread == dio_polling_loop /\ UNCHANGED histvars

\* the TX timeout timer expires
TxTimerExpires ==
    /\ tx_timer
    /\ Step(_on_tx_timeout(Begin), "_on_tx_timeout", "timer")
    /\ UNCHANGED << cfgvars, pid, queue, init_result, histvars, busvars >>

\* the RX timeout timer expires
RxTimerExpires ==
    /\ rx_timer
    /\ Step(_on_rx_timeout(Begin), "_on_rx_timeout", "timer")
    /\ UNCHANGED << cfgvars, pid, queue, init_result, histvars, busvars >>

Next ==
    \/ Do_sx1272_init
    \/ Do_sx1272_set_sleep
    \/ Do_sx1272_set_standby
    \/ Do_sx1272_set_modem
    \/ Do_sx1272_set_channel
    \/ Do_sx1272_is_channel_free
    \/ Do_sx1272_random
    \/ Do_sx1272_set_max_payload_len
    \/ Do_sx1272_start_cad
    \/ Do_sx1272_send
    \/ Do_sx1272_set_rx
    \/ \E i \in DioLines : sx1272_on_dio_isr(i)
    \/ dio_polling_thread
    \/ TxTimerExpires
    \/ RxTimerExpires

Spec == Init /\ [][Next]_vars

TypeOK ==
    /\ state \in { "IDLE", "RX_RUNNING", "TX_RUNNING", "CAD" }
    /\ modem \in { "LORA", "FSK" }
    /\ \A a \in ConfigRegs : regs[a] \in Byte
    /\ Len(queue) <= MaxPending
    /\ cycle_events \in 0 .. MaxEvents

(***************************************************************************)
(* Channel programming on its own: the chip's operating-mode register      *)
(* holds any byte when sx1272_set_channel is called.                       *)
(***************************************************************************)
ChannelFreqs == { 868000000, 433920000, 915000000, 0, 16777215 }

InitChannel ==
    /\ \E b \in Boards :
         /\ dio_pins = b.dio_pins
         /\ rfswitch_pin = b.rfswitch_pin
         /\ rfswitch_mode = b.rfswitch_mode
         /\ cadmode = b.cadmode
         /\ lora = b.lora
    /\ event_cb = TRUE
    /\ channel = Channel
    /\ \E v \in Byte : regs = [ ResetRegs EXCEPT ![REG.OPMODE] = v ]
    /\ irq_en = [ i \in DioLines |-> i \in dio_pins ]
    /\ rfswitch = 1
    /\ state = "IDLE"
    /\ modem = "LORA"
    /\ tx_timer = FALSE
    /\ rx_timer = FALSE
    /\ last_packet = [ snr_value |-> 0, rssi_value |-> 0, size |-> 0,
                       content |-> << 0, 0 >> ]
    /\ last_channel = 0
    /\ is_last_cad_success = FALSE
    /\ req_mode = 0 - 1
    /\ pid = TRUE
    /\ queue = << >>
    /\ init_result = "INIT_OK"
    /\ oplog = << >>
    /\ last_op = "none"
    /\ ctx = "none"
    /\ cycle = "NONE"
    /\ cycle_events = 0
    /\ posted = << >>
    /\ dispatched = << >>
    /\ BusIdle

SetChannel ==
    /\ last_op = "none"
    /\ \E freq \in ChannelFreqs :
         CallerOp(sx1272_set_channel(Call(freq), freq), "sx1272_set_channel")

NextChannel == SetChannel

SpecChannel == InitChannel /\ [][NextChannel]_vars

(***************************************************************************)
(* The worker's message queue on its own: DIO interrupts post while an     *)
(* operation is in any state, and the worker dispatches.                   *)
(***************************************************************************)
InitQueue ==
    /\ \E b \in Boards :
         /\ dio_pins = b.dio_pins
         /\ rfswitch_pin = b.rfswitch_pin
         /\ rfswitch_mode = b.rfswitch_mode
         /\ cadmode = b.cadmode
         /\ lora = b.lora
    /\ event_cb = TRUE
    /\ channel = Channel
    /\ regs = [ ResetRegs EXCEPT
                  ![REG.OPMODE] = RFLR.OPMODE_LONGRANGEMODE_ON
                                  + RF.OPMODE_RECEIVER ]
    /\ irq_en = [ i \in DioLines |-> i \in dio_pins ]
    /\ rfswitch = 1
    /\ state \in { "RX_RUNNING", "TX_RUNNING" }
    /\ modem = "LORA"
    /\ tx_timer = FALSE
    /\ rx_timer = FALSE
    /\ last_packet = [ snr_value |-> 0, rssi_value |-> 0, size |-> 0,
                       content |-> << 0, 0 >> ]
    /\ last_channel = 0
    /\ is_last_cad_success = FALSE
    /\ req_mode = 0 - 1
    /\ pid = TRUE
    /\ queue = << >>
    /\ init_result = "INIT_OK"
    /\ oplog = << >>
    /\ last_op = "none"
    /\ ctx = "none"
    /\ cycle = "NONE"
    /\ cycle_events = 0
    /\ posted = << >>
    /\ dispatched = << >>
    /\ BusIdle

\* a DIO interrupt, recorded when its message was taken by the queue
QueueIsr(i) ==
    /\ Len(posted) < MaxPosted
    /\ msg_send_int(i)
    /\ posted' = IF Len(queue') > Len(queue) THEN Append(posted, i)
                                             ELSE posted
    /\ UNCHANGED dispatched

\* a turn of the worker, recorded with the handler it ran
QueueWorker ==
    /\ dio_polling_loop
    /\ dispatched' = Append(dispatched, last_op')
    /\ UNCHANGED posted

NextQueue ==
    \/ \E i \in DioLines : QueueIsr(i)
    \/ QueueWorker

\* the worker keeps running: a pending message is eventually received
SpecQueue == InitQueue /\ [][NextQueue]_vars /\ WF_vars(QueueWorker)

(***************************************************************************)
(* An initialised, idle device of board b with channel ch, LoRa settings l *)
(* and power amplifier registers pa_config and pa_dac.                     *)
(***************************************************************************)
IdleDevice(b, ch, l, pa_config, pa_dac) ==
    /\ dio_pins = b.dio_pins
    /\ rfswitch_pin = b.rfswitch_pin
    /\ rfswitch_mode = b.rfswitch_mode
    /\ cadmode = b.cadmode
    /\ event_cb = TRUE
    /\ channel = ch
    /\ lora = l
    /\ regs = [ ResetRegs EXCEPT ![REG.OPMODE] = RFLR.OPMODE_LONGRANGEMODE_ON,
                                 ![REG.PACONFIG] = pa_config,
                                 ![REG.PADAC] = pa_dac ]
    /\ irq_en = [ i \in DioLines |-> i \in dio_pins ]
    /\ rfswitch = 1
    /\ state = "IDLE"
    /\ modem = "LORA"
    /\ tx_timer = FALSE
    /\ rx_timer = FALSE
    /\ last_packet = [ snr_value |-> 0, rssi_value |-> 0, size |-> 0,
                       content |-> << 0, 0 >> ]
    /\ last_channel = 0
    /\ is_last_cad_success = FALSE
    /\ req_mode = 0 - 1
    /\ pid = TRUE
    /\ queue = << >>
    /\ init_result = "INIT_OK"
    /\ oplog = << >>
    /\ last_op = "none"
    /\ ctx = "none"
    /\ cycle = "NONE"
    /\ cycle_events = 0
    /\ posted = << >>
    /\ dispatched = << >>
    /\ BusIdle

\* the board without RF switch
PlainBoard == CHOOSE b \in Boards : ~b.rfswitch_pin

(***************************************************************************)
(* LoRa configuration on its own: any settings, then any configuration     *)
(* calls.                                                                  *)
(***************************************************************************)
Bandwidths == { SX1272_BW_125_KHZ, SX1272_BW_250_KHZ, SX1272_BW_500_KHZ }

SpreadingFactors == 6 .. 12

CodingRates == { 1, 4 }

\* settings records; the flag may hold any value, as the application or an
\* earlier configuration left it
LoraInputs ==
    { [ rx_continuous |-> FALSE, freq_hop_on |-> ih = 1,
        iq_inverted |-> FALSE,
        bandwidth |-> bw, datarate |-> sf, coderate |-> 1,
        implicit_header |-> ih, crc_on |-> 1 - ih,
        low_datarate_optimize |-> ldo,
        preamble_len |-> 8, payload_len |-> 13, rx_timeout |-> 1023,
        hop_period |-> 0, power |-> 14 ] :
      bw \in Bandwidths, sf \in SpreadingFactors, ih \in { 0, 1 },
      ldo \in { 0, 1 } }

\* what the chip answers for the registers sx1272_configure_lora reads
HwConfig ==
    { [ cfg1 |-> v, cfg2 |-> v, pllhop |-> v, lna |-> v ] : v \in { 0, 255 } }

InitLora ==
    \E l \in LoraInputs : IdleDevice(PlainBoard, Channel, l, 15, 132)

ConfigureLora ==
    \E settings \in LoraInputs, hw \in HwConfig :
        CallerOp(sx1272_configure_lora(Begin, << settings >>, hw),
                 "sx1272_configure_lora")

ConfigureLoraBw ==
    \E bw \in Bandwidths, hw \in HwConfig :
        CallerOp(sx1272_configure_lora_bw(Call(bw), bw, hw),
                 "sx1272_configure_lora_bw")

ConfigureLoraSf ==
    \E sf \in SpreadingFactors, hw \in HwConfig :
        CallerOp(sx1272_configure_lora_sf(Call(sf), sf, hw),
                 "sx1272_configure_lora_sf")

ConfigureLoraCr ==
    \E cr \in CodingRates, hw \in HwConfig :
        CallerOp(sx1272_configure_lora_cr(Call(cr), cr, hw),
                 "sx1272_configure_lora_cr")

NextLora ==
    \/ ConfigureLora
    \/ ConfigureLoraBw
    \/ ConfigureLoraSf
    \/ ConfigureLoraCr

SpecLora == InitLora /\ [][NextLora]_vars

(***************************************************************************)
(* The serial bus on its own: the caller and the worker each issue         *)
(* register reads and writes, one step of an access at a time.             *)
(***************************************************************************)
\* the write access asserting chip-select before it takes the bus
sx1272_reg_write_burst_frame_cs_first ==
    << "gpio_clear", "spi_acquire", "irq_disable", "spi_transfer_regs",
       "gpio_set", "irq_restore", "spi_release" >>

\* the steps of sx1272_reg_write_burst, in order
sx1272_reg_write_burst_frame ==
    << "spi_acquire", "irq_disable", "gpio_clear", "spi_transfer_regs",
       "gpio_set", "irq_restore", "spi_release" >>

\* the steps of sx1272_reg_read_burst, in order
sx1272_reg_read_burst_frame ==
    << "irq_disable", "spi_acquire", "gpio_clear", "spi_transfer_regs",
       "gpio_set", "spi_release", "irq_restore" >>

\* bus ownership is exclusive: spi_acquire returns once no context owns it
spi_acquire_ready == spi_owner = "none"

\* the step context c is about to take
NextBusStep(c) == bus_frame[c][Len(bus_done[c]) + 1]

\* context c calls sx1272_reg_write_burst or sx1272_reg_read_burst
BusBegin(c) ==
    /\ bus_frame[c] = << >>
    /\ \E f \in { sx1272_reg_write_burst_frame,
                   sx1272_reg_read_burst_frame } :
         bus_frame' = [ bus_frame EXCEPT ![c] = f ]
    /\ bus_done' = [ bus_done EXCEPT ![c] = << >> ]
    /\ UNCHANGED << spi_owner, nss, irq_disabled >>

\* context c takes the next step of its access
BusStep(c) ==
    /\ bus_frame[c] # << >>
    /\ LET step == NextBusStep(c)
       IN  /\ step = "spi_acquire" => spi_acquire_ready
           /\ spi_owner' = CASE step = "spi_acquire" -> c
                              [] step = "spi_release" -> "none"
                              [] OTHER -> spi_owner
           /\ nss' = CASE step = "gpio_clear" -> 0
                        [] step = "gpio_set" -> 1
                        [] OTHER -> nss
           /\ irq_disabled' =
                  CASE step = "irq_disable" ->
                           [ irq_disabled EXCEPT ![c] = TRUE ]
                    [] step = "irq_restore" ->
                           [ irq_disabled EXCEPT ![c] = FALSE ]
                    [] OTHER -> irq_disabled
           /\ bus_done' = [ bus_done EXCEPT ![c] = Append(@, step) ]
           /\ bus_frame' =
                  IF Len(bus_done[c]) + 1 = Len(bus_frame[c])
                  THEN [ bus_frame EXCEPT ![c] = << >> ]
                  ELSE bus_frame

\* the driver state the bus steps leave alone
drvvars == << cfgvars, devvars, pid, queue, init_result, last_op, ctx, cycle,
              cycle_events, histvars >>

BusAccess(c) ==
    /\ BusBegin(c) \/ BusStep(c)
    /\ UNCHANGED drvvars

InitBus == IdleDevice(PlainBoard, Channel, PlainBoard.lora, 15, 132)

NextBus == \E c \in BusCtx : BusAccess(c)

SpecBus == InitBus /\ [][NextBus]_vars

(***************************************************************************)
(* Initialisation on its own: the chip answers any version byte.  The call *)
(* log starts with the two outcomes of the environment: whether the bus    *)
(* and chip-select set-up succeeded, and whether the worker was created.   *)
(***************************************************************************)
Flag(b) == IF b THEN 1 ELSE 0

InitAnyChip ==
    /\ init_result = "NONE"
    /\ \E spi_ok \in BOOLEAN, version \in Byte, thread_ok \in BOOLEAN :
         /\ Step(sx1272_init(Log(Begin, "call", Flag(spi_ok),
                                 Flag(thread_ok)),
                             spi_ok, version),
                 "sx1272_init", "caller")
         /\ init_result' = sx1272_init_result(spi_ok, version, thread_ok)
         /\ pid' = (init_result' = "INIT_OK")
    /\ UNCHANGED << cfgvars, queue, histvars, busvars >>

NextInit == InitAnyChip

SpecInit == Init /\ [][NextInit]_vars

(***************************************************************************)
(* One reception on its own: receive is started, then the line-0 handler   *)
(* runs with any SNR byte and a range of RSSI bytes.                       *)
(***************************************************************************)
RssiBytes == { 0, 15, 16, 32, 139, 255 }

RxBytes ==
    { [ irq_flags |-> f, snr |-> b, rssi |-> r, rx_addr |-> 0,
        fifo |-> << 7 >> ] :
      f \in { RFLR.IRQFLAGS_RXDONE,
              RFLR.IRQFLAGS_RXDONE + RFLR.IRQFLAGS_PAYLOADCRCERROR },
      b \in Byte, r \in RssiBytes }

InitRx == \E b \in Boards : IdleDevice(b, Channel, b.lora, 15, 132)

RxStart ==
    /\ last_op = "none"
    /\ Do_sx1272_set_rx

RxDio0 ==
    /\ last_op = "sx1272_set_rx"
    /\ \E hw \in RxBytes :
         Step(sx1272_on_dio0(Begin, hw), "sx1272_on_dio0", "worker")
    /\ UNCHANGED << cfgvars, pid, queue, init_result, histvars, busvars >>

NextRx == RxStart \/ RxDio0

SpecRx == InitRx /\ [][NextRx]_vars

(***************************************************************************)
(* Channel activity detection on its own: a detection is started, the chip *)
(* ends it with any IRQ flags that include CadDone, and the line-3 or      *)
(* line-4 handler runs.                                                    *)
(***************************************************************************)
CadIrqFlags ==
    { f \in Byte : BitAnd(f, RFLR.IRQFLAGS_CADDONE) = RFLR.IRQFLAGS_CADDONE }

InitCad == \E b \in Boards : IdleDevice(b, Channel, b.lora, 15, 132)

CadStart ==
    /\ last_op \in { "none", "sx1272_on_dio3", "sx1272_on_dio4" }
    /\ Do_sx1272_start_cad

CadDio3 ==
    /\ last_op = "sx1272_start_cad"
    /\ irq_en[3]
    /\ \E flags \in CadIrqFlags :
         Step(sx1272_on_dio3(Call(flags), flags), "sx1272_on_dio3", "worker")
    /\ UNCHANGED << cfgvars, pid, queue, init_result, histvars, busvars >>

CadDio4 ==
    /\ last_op = "sx1272_start_cad"
    /\ irq_en[4]
    /\ \E flags \in CadIrqFlags :
         Step(sx1272_on_dio4(Call(flags), flags), "sx1272_on_dio4", "worker")
    /\ UNCHANGED << cfgvars, pid, queue, init_result, histvars, busvars >>

NextCad == CadStart \/ CadDio3 \/ CadDio4

SpecCad == InitCad /\ [][NextCad]_vars

(***************************************************************************)
(* The line-0 and line-2 handlers on their own: the caller starts a send,  *)
(* a reception or a detection or goes to standby, and the worker runs a    *)
(* handler in whatever logical state that left.                            *)
(***************************************************************************)
DioInputs ==
    { [ irq_flags |-> f, snr |-> s, rssi |-> 32, rx_addr |-> a,
        fifo |-> c ] :
      f \in { RFLR.IRQFLAGS_RXDONE,
              RFLR.IRQFLAGS_RXDONE + RFLR.IRQFLAGS_PAYLOADCRCERROR,
              RFLR.IRQFLAGS_TXDONE },
      s \in { 4, 252 }, a \in { 0, 17 },
      c \in { << >>, << 7 >>, << 7, 9 >> } }

InitDio == \E b \in Boards : IdleDevice(b, Channel, b.lora, 15, 132)

Dio0 ==
    /\ \E hw \in DioInputs :
         Step(sx1272_on_dio0(Begin, hw), "sx1272_on_dio0", "worker")
    /\ UNCHANGED << cfgvars, pid, queue, init_result, histvars, busvars >>

Dio2 ==
    /\ \E hop \in HopChannels :
         Step(sx1272_on_dio2(Begin, hop), "sx1272_on_dio2", "worker")
    /\ UNCHANGED << cfgvars, pid, queue, init_result, histvars, busvars >>

NextDio ==
    \/ Do_sx1272_send
    \/ Do_sx1272_set_rx
    \/ Do_sx1272_start_cad
    \/ Do_sx1272_set_standby
    \/ Do_sx1272_set_sleep
    \/ Dio0
    \/ Dio2

SpecDio == InitDio /\ [][NextDio]_vars

(***************************************************************************)
(* Time on air on its own: any settings, any packet length.                *)
(***************************************************************************)
ToaSettings ==
    { [ rx_continuous |-> FALSE, freq_hop_on |-> FALSE,
        iq_inverted |-> FALSE,
        bandwidth |-> bw, datarate |-> sf, coderate |-> cr,
        implicit_header |-> ih, crc_on |-> crc,
        low_datarate_optimize |-> ldo,
        preamble_len |-> 8, payload_len |-> 0, rx_timeout |-> 10,
        hop_period |-> 0, power |-> 14 ] :
      bw \in Bandwidths, sf \in SpreadingFactors, cr \in 1 .. 4,
      ih \in { 0, 1 }, crc \in { 0, 1 }, ldo \in { 0, 1 } }

PacketLengths == { 0, 1, 13, 14, 64, 255 }

InitToa == \E l \in ToaSettings : IdleDevice(PlainBoard, Channel, l, 15, 132)

\* the call log holds the arguments and the value returned
GetTimeOnAir ==
    \E m \in { "LORA", "FSK" }, pkt_len \in PacketLengths :
        CallerOp(Log(Log(Begin, "call", pkt_len, m), "ret",
                     sx1272_get_time_on_air(Begin, m, pkt_len), 0),
                 "sx1272_get_time_on_air")

NextToa == GetTimeOnAir

SpecToa == InitToa /\ [][NextToa]_vars

(***************************************************************************)
(* The power amplifier policy on its own: any channel, requested power and *)
(* register contents, the policy applied once and then again.              *)
(***************************************************************************)
PowerInputs == (0 - 4 .. 23) \cup { 0 - 128, 127 }

PaChannels == { 433920000, 524999999, 525000000, 868000000 }

PaConfigInputs == { 0, 15, 143, 255 }

PaDacInputs == { 0, 132, 135, 255 }

InitPa ==
    \E ch \in PaChannels, p \in PowerInputs,
       pa_config \in PaConfigInputs, pa_dac \in PaDacInputs :
        IdleDevice(PlainBoard, ch, [ LoraDefaults @@ PlainBoard.lora
                                       EXCEPT !.power = p ],
                   pa_config, pa_dac)

\* the policy applied to the requested power
SetupPa ==
    /\ last_op = "none"
    /\ CallerOp(setup_power_amplifier(Call(lora.power)),
                "setup_power_amplifier")

\* the policy applied to the state an earlier run left
SetupPaAgain ==
    /\ last_op # "none"
    /\ CallerOp(setup_power_amplifier(Call(lora.power)),
                "setup_power_amplifier_again")

NextPa == SetupPa \/ SetupPaAgain

SpecPa == InitPa /\ [][NextPa]_vars

(***************************************************************************)
(* Properties.                                                             *)
(***************************************************************************)
\* the mode field of an operating-mode register byte
ModeField(v) == BitAnd(v, BitNot8(RF.OPMODE_MASK))

\* the register writes of a call log, in order
Writes(log) == SelectSeq(log, LAMBDA e : e[1] = "w")

\* the mode requests and register writes of a call log, in order
ReqsAndWrites(log) == SelectSeq(log, LAMBDA e : e[1] \in { "op_mode", "w" })

\* the names of the events of a call log
EventNames(log) == { Events(log)[k][2] : k \in 1 .. Len(Events(log)) }

\* every configured DIO line has its interrupt callback disabled
DioDisabled == \A i \in dio_pins : ~irq_en[i]

\* every configured DIO line has its interrupt callback enabled
DioEnabled == \A i \in dio_pins : irq_en[i]

RfSwitchDisabled == rfswitch_pin => rfswitch = RfSwitchDisabledLevel

RfSwitchEnabled == rfswitch_pin => rfswitch = RfSwitchEnabledLevel

\* C1: at most one of the TX and RX timeout timers is armed, and once an
\* operation has emitted a terminal event both timers are unarmed.
C1_TimerMutualExclusion ==
    /\ ~(tx_timer /\ rx_timer)
    /\ Len(Terminal(oplog)) > 0 => ~tx_timer /\ ~rx_timer

\* C2: a send cycle, and a receive cycle in non-continuous mode, gets at
\* most one terminal event from its start to the start of the next cycle.
C2_OneEventPerCycle == ~lora.rx_continuous => cycle_events <= 1

\* C3: while Sleep is the mode last requested, no DIO interrupt callback of
\* a configured line runs and posts a message to the worker.
C3_SleepMasksDio ==
    req_mode = RF.OPMODE_SLEEP =>
        \A k \in 1 .. Len(oplog) : oplog[k][1] # "msg_send_int"

\* C4: a byte sx1272_set_op_mode writes to the operating-mode register has
\* the bits outside the mode field as read just before, so the long-range
\* mode bit stays set after the switch to LoRa.
C4_ModeWriteKeepsOtherBits ==
    /\ \A k \in 1 .. Len(oplog) :
         ( /\ oplog[k][1] = "op_mode"
           /\ k + 2 <= Len(oplog)
           /\ oplog[k + 2][1] = "w" )
         => BitAnd(oplog[k + 2][3], RF.OPMODE_MASK)
                = BitAnd(oplog[k + 1][3], RF.OPMODE_MASK)
    /\ (init_result = "INIT_OK" /\ modem = "LORA")
         => BitAnd(regs[REG.OPMODE], RFLR.OPMODE_LONGRANGEMODE_ON)
                = RFLR.OPMODE_LONGRANGEMODE_ON

\* the last operation was one call of sx1272_set_op_mode for the mode the
\* chip already held
SuppressedModeRequest ==
    /\ last_op \in { "sx1272_set_sleep", "sx1272_set_standby" }
    /\ \E k \in 1 .. Len(oplog) - 1 :
         /\ oplog[k][1] = "op_mode"
         /\ ModeField(oplog[k + 1][3]) = oplog[k][2]

\* C5: a request for the mode the chip already holds writes no register and
\* still applies the side effects of that mode to every configured DIO line
\* and to the RF switch.
C5_SuppressedWriteKeepsSideEffects ==
    SuppressedModeRequest =>
        /\ Writes(oplog) = << >>
        /\ IF req_mode = RF.OPMODE_SLEEP
           THEN DioDisabled /\ RfSwitchDisabled
           ELSE DioEnabled /\ RfSwitchEnabled

\* C6: the application callback is invoked only by the worker task.
C6_EventsOnlyFromWorker == Len(Events(oplog)) > 0 => ctx = "worker"

\* C7: right after a timeout or CRC-error event the logical state is Idle,
\* or still RxRunning in continuous receive.
C7_TimeoutLeavesIdle ==
    EventNames(oplog) \cap { "TX_TIMEOUT", "RX_TIMEOUT", "RX_ERROR_CRC" } # { }
        => \/ state = "IDLE"
           \/ lora.rx_continuous /\ state = "RX_RUNNING"

\* the operations of C8
ModeChangingOps ==
    { "sx1272_set_sleep", "sx1272_set_standby", "sx1272_set_modem",
      "sx1272_set_channel", "sx1272_is_channel_free", "sx1272_random",
      "sx1272_set_max_payload_len" }

\* C8: an operation that moved the chip into Sleep or Standby leaves neither
\* timeout timer armed.
C8_NoTimerInSleepOrStandby ==
    ( /\ last_op \in ModeChangingOps
      /\ \E k \in 1 .. Len(oplog) :
           /\ oplog[k][1] = "op_mode"
           /\ oplog[k][2] \in { RF.OPMODE_SLEEP, RF.OPMODE_STANDBY } )
    => ~tx_timer /\ ~rx_timer

\* C9: after a public operation, the DIO callbacks are disabled and the RF
\* switch is at its disabled bias iff the chip's mode field is Sleep.
C9_DioAndSwitchFollowMode ==
    (ctx = "caller" /\ init_result = "INIT_OK")
    => ( (DioDisabled /\ RfSwitchDisabled)
         <=> ModeField(regs[REG.OPMODE]) = RF.OPMODE_SLEEP )

\* the frequency writes of sx1272_set_channel for the frequency freq and
\* its final write, when the operating-mode register held v
ChannelWrites(v, freq) ==
    << << "w", REG.FRFMSB, (FreqToFrf(freq) \div 65536) % 256 >>,
       << "w", REG.FRFMID, (FreqToFrf(freq) \div 256) % 256 >>,
       << "w", REG.FRFLSB, FreqToFrf(freq) % 256 >>,
       << "w", REG.OPMODE, v >> >>

\* C10: sx1272_set_channel requests Standby, then writes the frequency bytes
\* MSB, MID, LSB, and leaves the operating-mode register at the byte v it
\* held before, in every bit.
C10_SetChannelRestoresMode ==
    last_op = "sx1272_set_channel" =>
        LET freq == oplog[1][2]
            v    == oplog[2][3]
            rw   == ReqsAndWrites(oplog)
            n    == Len(rw)
        IN  /\ oplog[2] = << "r", REG.OPMODE, v >>
            /\ n \in { 5, 6 }
            /\ rw[1] = << "op_mode", RF.OPMODE_STANDBY, 0 >>
            /\ n = 6 => /\ rw[2][1] = "w"
                        /\ rw[2][2] = REG.OPMODE
                        /\ ModeField(rw[2][3]) = RF.OPMODE_STANDBY
            /\ SubSeq(rw, n - 3, n) = ChannelWrites(v, freq)
            /\ regs[REG.OPMODE] = v

\* a channel was set while the chip was in LoRa continuous receive
C10_Witness ==
    /\ last_op = "sx1272_set_channel"
    /\ oplog[1][2] = 868000000
    /\ oplog[2][3] = RFLR.OPMODE_LONGRANGEMODE_ON + RF.OPMODE_RECEIVER
    /\ regs[REG.OPMODE] = RFLR.OPMODE_LONGRANGEMODE_ON + RF.OPMODE_RECEIVER
    /\ Len(Writes(oplog)) = 5

\* the handler the worker runs for DIO line i
HandlerOf(i) ==
    << "sx1272_on_dio0", "sx1272_on_dio1", "sx1272_on_dio2",
       "sx1272_on_dio3", "sx1272_on_dio4", "sx1272_on_dio5" >>[i + 1]

\* C11: the worker runs the per-line handlers in the order the interrupts
\* posted, each message once: the handlers run so far are those of the
\* first posted lines, the rest of the posted lines wait in the queue, and
\* every posted message is eventually dispatched.
C11_DispatchInPostOrder ==
    /\ [](/\ Len(posted) = Len(dispatched) + Len(queue)
          /\ \A k \in 1 .. Len(dispatched) :
               dispatched[k] = HandlerOf(posted[k])
          /\ \A k \in 1 .. Len(queue) :
               HandlerOf(queue[k]) = HandlerOf(posted[Len(dispatched) + k]))
    /\ \A n \in 1 .. MaxPosted :
         (Len(posted) >= n) ~> (Len(dispatched) >= n)

\* lines 1, 0 and 3 posted in that order, the first dispatched while the
\* other two wait
C11_Witness ==
    /\ posted = << 1, 0, 3 >>
    /\ dispatched = << "sx1272_on_dio1" >>
    /\ Len(queue) = 2

\* the operations that run the LoRa configuration pass
LoraOps ==
    { "sx1272_configure_lora", "sx1272_configure_lora_bw",
      "sx1272_configure_lora_sf", "sx1272_configure_lora_cr" }

\* the bytes a call log writes to the register addr, in order
WritesTo(log, addr) ==
    SelectSeq(log, LAMBDA e : e[1] = "w" /\ e[2] = addr)

\* C12: after a LoRa configuration call the low-datarate-optimize flag of
\* the settings, and bit 0 of the byte written to modem-config register 1,
\* are set iff bandwidth is 125 kHz with SF 11 or 12, or 250 kHz with SF 12,
\* for the bandwidth and spreading factor now in the settings; a setter
\* leaves its argument in the settings.
C12_LowDatarateOptimize ==
    last_op \in LoraOps =>
        LET want == \/ lora.bandwidth = 0 /\ lora.datarate \in { 11, 12 }
                    \/ lora.bandwidth = 1 /\ lora.datarate = 12
            w1   == WritesTo(oplog, REG.LR_MODEMCONFIG1)
        IN  /\ (lora.low_datarate_optimize = 1) <=> want
            /\ lora.low_datarate_optimize \in { 0, 1 }
            /\ Len(w1) = 1
            /\ (w1[1][3] % 2 = 1) <=> want
            /\ last_op = "sx1272_configure_lora_bw"
                  => lora.bandwidth = oplog[1][2]
            /\ last_op = "sx1272_configure_lora_sf"
                  => lora.datarate = oplog[1][2]

\* the spreading factor was set to 11 at 125 kHz and the flag is now set
C12_Witness ==
    /\ last_op = "sx1272_configure_lora_sf"
    /\ oplog[1][2] = 11
    /\ lora.bandwidth = SX1272_BW_125_KHZ
    /\ lora.low_datarate_optimize = 1
    /\ WritesTo(oplog, REG.LR_MODEMCONFIG1)[1][3] % 2 = 1

PaOps == { "setup_power_amplifier", "setup_power_amplifier_again" }

\* v clamped to lo .. hi
Clamp(v, lo, hi) == IF v < lo THEN lo ELSE IF v > hi THEN hi ELSE v

\* C13: for the requested power req, the stored power and the output-power
\* field of the PA-config byte written are: on the boosted path with
\* req > 17, req clamped to 5..20 and power - 5; on the boosted path
\* otherwise, req clamped to 2..17 and power - 2; on the RF-output path,
\* req clamped to -1..14 and power + 1; the field is in 0..15.
C13_PaClampAndEncode ==
    last_op \in PaOps =>
        LET req   == oplog[1][2]
            cfg   == WritesTo(oplog, REG.PACONFIG)
            field == cfg[1][3] % 16
            boost == channel < SX1272_RF_MID_BAND_THRESH
        IN  /\ Len(cfg) = 1
            /\ field \in 0 .. 15
            /\ (boost /\ req > 17)
                  => /\ lora.power = Clamp(req, 5, 20)
                     /\ field = lora.power - 5
            /\ (boost /\ req <= 17)
                  => /\ lora.power = Clamp(req, 2, 17)
                     /\ field = lora.power - 2
            /\ ~boost
                  => /\ lora.power = Clamp(req, 0 - 1, 14)
                     /\ field = lora.power + 1

\* 23 dBm requested on the boosted path: stored 20, field 15
C13_Witness ==
    /\ last_op = "setup_power_amplifier"
    /\ oplog[1][2] = 23
    /\ channel = 433920000
    /\ lora.power = 20
    /\ regs[REG.PACONFIG] % 16 = 15

\* C14: a second run of the policy on the state the first run left writes
\* the same PA-config and PA-DAC bytes and leaves the same power.
C14_PaIdempotent ==
    [][last_op' = "setup_power_amplifier_again"
         => /\ Writes(oplog') = Writes(oplog)
            /\ lora'.power = lora.power
            /\ regs' = regs]_vars

\* the policy ran again on a clamped power of the boosted path
C14_Witness ==
    /\ last_op = "setup_power_amplifier_again"
    /\ channel = 524999999
    /\ lora.power = 2
    /\ regs[REG.PACONFIG] = 128
    /\ regs[REG.PADAC] = 4

\* the time on air of the stated formula, in microseconds: symbol duration
\* 2^SF / bandwidth, preamble_len + 4.25 preamble symbols, and
\* 8 + max(0, ceil(num / (4 * (SF - 2 * low_dr_opt))) * (coderate + 4))
\* payload symbols
StatedTimeOnAir(l, len) ==
    LET num  == 8 * len - 4 * l.datarate + 28 + 16 * l.crc_on
                  - 20 * (1 - l.implicit_header)
        den  == 4 * (l.datarate - 2 * l.low_datarate_optimize)
        c    == IF num >= 0 THEN (num + den - 1) \div den
                            ELSE 0 - ((0 - num) \div den)
        npay == 8 + (IF c > 0 THEN c * (l.coderate + 4) ELSE 0)
        tsq  == (2 ^ l.datarate * 250000)
                    \div (125000 * 2 ^ l.bandwidth)
    IN  (4 * l.preamble_len + 17 + 4 * npay) * tsq

\* C15: sx1272_get_time_on_air returns the value of the stated formula for
\* the LoRa modem, 41216 for the example settings, and 0 for the FSK modem.
C15_TimeOnAir ==
    last_op = "sx1272_get_time_on_air" =>
        LET len == oplog[1][2]
            m   == oplog[1][3]
            ret == oplog[2][2]
        IN  /\ m = "FSK" => ret = 0
            /\ m = "LORA" => ret = StatedTimeOnAir(lora, len)
            /\ ( /\ m = "LORA" /\ len = 13
                 /\ lora.bandwidth = 0 /\ lora.datarate = 7
                 /\ lora.coderate = 1 /\ lora.crc_on = 1
                 /\ lora.implicit_header = 0
                 /\ lora.low_datarate_optimize = 0 )
               => ret = 41216

\* the bytes a call log reads from the register addr, in order
ReadsOf(log, addr) ==
    SelectSeq(log, LAMBDA e : e[1] = "r" /\ e[2] = addr)

\* the line-0 handler has just stored a received packet
PacketStored ==
    /\ last_op = "sx1272_on_dio0"
    /\ "RX_DONE" \in EventNames(oplog)

\* the SNR in dB of the raw byte b, as stated: b div 4 when bit 7 is clear,
\* -((256 - b) div 4) when it is set
StatedSnr(b) == IF b < 128 THEN b \div 4 ELSE 0 - ((256 - b) \div 4)

\* C16: for the raw SNR byte b and raw packet-RSSI byte r the handler read,
\* the decoded SNR is the stated one (1 for 0x04, -1 for 0xFC) and the
\* stored packet RSSI is -139 + r + (r div 16), plus the SNR when negative.
C16_SnrRssiDecode ==
    PacketStored =>
        LET b == ReadsOf(oplog, REG.LR_PKTSNRVALUE)[1][3]
            r == ReadsOf(oplog, REG.LR_PKTRSSIVALUE)[1][3]
        IN  /\ DecodeSnr(b) = StatedSnr(b)
            /\ b = 4 => DecodeSnr(b) = 1
            /\ b = 252 => DecodeSnr(b) = 0 - 1
            /\ last_packet.rssi_value =
                   (0 - 139) + r + (r \div 16)
                   + (IF StatedSnr(b) < 0 THEN StatedSnr(b) ELSE 0)

\* a packet with SNR byte 0xFC and RSSI byte 32: RSSI -139 + 32 + 2 - 1
C16_Witness ==
    /\ PacketStored
    /\ ReadsOf(oplog, REG.LR_PKTSNRVALUE)[1][3] = 252
    /\ ReadsOf(oplog, REG.LR_PKTRSSIVALUE)[1][3] = 32
    /\ last_packet.rssi_value = 0 - 106

\* C17: when RxDone is emitted the SNR field of the last-packet record
\* holds the decoded SNR in dB of that reception.
C17_StoredSnrIsDecoded ==
    PacketStored =>
        last_packet.snr_value
            = StatedSnr(ReadsOf(oplog, REG.LR_PKTSNRVALUE)[1][3])

\* the register and FIFO accesses of a call log, in order
Accesses(log) ==
    SelectSeq(log, LAMBDA e : e[1] \in { "r", "w", "wfifo", "rfifo" })

\* C18: sx1272_init returns SpiError when the bus or chip-select set-up
\* fails, else ChipIdentityMismatch when the version read differs from the
\* expected constant, else ThreadCreationError when the worker cannot be
\* created, else Ok with the worker handle stored; SpiError comes with no
\* register access, ChipIdentityMismatch with no register write, and only
\* Ok leaves a worker handle.
C18_InitResult ==
    last_op = "sx1272_init" =>
        LET spi_ok    == oplog[1][2] = 1
            thread_ok == oplog[1][3] = 1
            version   == ReadsOf(oplog, REG.VERSION)
        IN  /\ init_result =
                  ( IF ~spi_ok THEN "ERR_SPI"
                    ELSE IF version[1][3] # 34 THEN "ERR_TEST_FAILED"
                    ELSE IF ~thread_ok THEN "ERR_THREAD"
                    ELSE "INIT_OK" )
            /\ init_result = "ERR_SPI" => Accesses(oplog) = << >>
            /\ init_result = "ERR_TEST_FAILED"
                  => /\ Writes(oplog) = << >>
                     /\ Len(Accesses(oplog)) = 1
            /\ init_result # "ERR_SPI" => Len(version) = 1
            /\ pid <=> init_result = "INIT_OK"
            /\ init_result \in { "ERR_THREAD", "INIT_OK" }
                  => Writes(oplog) # << >>

\* a chip answering a wrong version while the worker could have been
\* created
C18_Witness ==
    /\ last_op = "sx1272_init"
    /\ init_result = "ERR_TEST_FAILED"
    /\ oplog = << << "call", 1, 1 >>, << "r", REG.VERSION, 33 >> >>
    /\ ~pid

\* the order of a register access as stated: bus ownership, interrupts
\* off, chip-select, transfer, chip-select off, interrupts on, bus released
StatedFrame ==
    << "spi_acquire", "irq_disable", "gpio_clear", "spi_transfer_regs",
       "gpio_set", "irq_restore", "spi_release" >>

\* C19: the steps of every register access, read or write, follow the
\* stated order; no context has interrupts disabled while it still has to
\* acquire the bus, and none releases the bus with interrupts disabled.
C19_AccessFrameOrder ==
    \A c \in BusCtx :
        /\ Len(bus_done[c]) <= Len(StatedFrame)
        /\ bus_done[c] = SubSeq(StatedFrame, 1, Len(bus_done[c]))
        /\ bus_frame[c] # << >>
              => /\ NextBusStep(c) = "spi_acquire" => ~irq_disabled[c]
                 /\ NextBusStep(c) = "spi_release" => ~irq_disabled[c]

\* the positions of step in the steps done
Positions(done, step) == { k \in 1 .. Len(done) : done[k] = step }

\* context c has asserted chip-select and not yet deasserted it
InTransfer(c) ==
    Cardinality(Positions(bus_done[c], "gpio_clear"))
        > Cardinality(Positions(bus_done[c], "gpio_set"))

\* context c has acquired the bus and not yet released it
Holds(c) ==
    Cardinality(Positions(bus_done[c], "spi_acquire"))
        > Cardinality(Positions(bus_done[c], "spi_release"))

\* C20: with the caller and the worker both issuing accesses, chip-select
\* is asserted only by the context owning the bus, at most one transfer is
\* in progress, chip-select is deasserted whenever the bus is not owned,
\* and every access acquires once and releases once, after one transfer.
C20_BusExclusive ==
    /\ \A c \in BusCtx : InTransfer(c) => spi_owner = c
    /\ \A c \in BusCtx : Holds(c) <=> spi_owner = c
    /\ Cardinality({ c \in BusCtx : InTransfer(c) }) <= 1
    /\ nss = 0 => \E c \in BusCtx : InTransfer(c) /\ spi_owner = c
    /\ spi_owner = "none" => nss = 1
    /\ \A c \in BusCtx :
         (bus_frame[c] = << >> /\ bus_done[c] # << >>)
         => \E a, t, r \in 1 .. Len(bus_done[c]) :
              /\ Positions(bus_done[c], "spi_acquire") = { a }
              /\ Positions(bus_done[c], "spi_transfer_regs") = { t }
              /\ Positions(bus_done[c], "spi_release") = { r }
              /\ a < t /\ t < r

\* the caller is in the transfer of a write while the worker, in a read,
\* waits for the bus
C20_Witness ==
    /\ spi_owner = "caller"
    /\ nss = 0
    /\ bus_frame["caller"] = sx1272_reg_write_burst_frame
    /\ bus_done["caller"][Len(bus_done["caller"])] = "spi_transfer_regs"
    /\ bus_frame["worker"] = sx1272_reg_read_burst_frame
    /\ bus_done["worker"] = << "irq_disable" >>

\* C21: after the line-3 or line-4 handler the cached last-CAD flag is TRUE
\* iff the chip had its CadDetected IRQ flag set when the detection ended,
\* and exactly one event was emitted: CadDone by line 3, CadDetected by
\* line 4.
C21_CadFlagFollowsChip ==
    last_op \in { "sx1272_on_dio3", "sx1272_on_dio4" } =>
        /\ is_last_cad_success
               = (BitAnd(oplog[1][2], RFLR.IRQFLAGS_CADDETECTED)
                     = RFLR.IRQFLAGS_CADDETECTED)
        /\ Len(Events(oplog)) = 1
        /\ Events(oplog)[1][2] = IF last_op = "sx1272_on_dio3"
                                 THEN "CAD_DONE" ELSE "CAD_DETECTED"

\* the FIFO reads of a call log, in order
FifoReads(log) == SelectSeq(log, LAMBDA e : e[1] = "rfifo")

\* this step is the line-0 handler run in logical state RxRunning with the
\* LoRa modem, the chip's CRC-error flag being set iff crc
Dio0Rx(crc) ==
    /\ last_op' = "sx1272_on_dio0"
    /\ state = "RX_RUNNING"
    /\ modem = "LORA"
    /\ crc = (BitAnd(ReadsOf(oplog', REG.LR_IRQFLAGS)[1][3],
                     RFLR.IRQFLAGS_PAYLOADCRCERROR)
                 = RFLR.IRQFLAGS_PAYLOADCRCERROR)

\* the state the handler leaves for a reception: Idle unless rx_continuous
StateAfterRx == IF lora.rx_continuous THEN "RX_RUNNING" ELSE "IDLE"

\* C22: the line-0 handler run in RxRunning (LoRa) without CRC error clears
\* the receive-done flag first, sets the packet size to the received-byte
\* count, sets the FIFO address pointer to the chip's current RX address
\* before reading exactly that many bytes, unarms the RX timer, leaves Idle
\* (RxRunning when rx_continuous) and ends by emitting its one RxDone.
C22_RxDoneStoresPacket ==
    [][ Dio0Rx(FALSE) =>
          /\ Writes(oplog')[1]
                 = << "w", REG.LR_IRQFLAGS, RFLR.IRQFLAGS_RXDONE >>
          /\ last_packet'.size = ReadsOf(oplog', REG.LR_RXNBBYTES)[1][3]
          /\ FifoReads(oplog')
                 = << << "rfifo", REG.LR_FIFO, last_packet'.size >> >>
          /\ \E i, j \in 1 .. Len(oplog') :
                /\ i < j
                /\ oplog'[i]
                     = << "w", REG.LR_FIFOADDRPTR,
                          ReadsOf(oplog', REG.LR_FIFORXCURRENTADDR)[1][3] >>
                /\ oplog'[j][1] = "rfifo"
          /\ ~rx_timer'
          /\ state' = StateAfterRx
          /\ Len(Events(oplog')) = 1
          /\ oplog'[Len(oplog')] = << "event", "RX_DONE", 0 >> ]_vars

\* a two-byte packet at RX address 17 was stored and ended a one-shot
\* reception
C22_Witness ==
    /\ last_op = "sx1272_on_dio0"
    /\ "RX_DONE" \in EventNames(oplog)
    /\ state = "IDLE"
    /\ last_packet.size = 2
    /\ WritesTo(oplog, REG.LR_FIFOADDRPTR) # << >>
    /\ ReadsOf(oplog, REG.LR_FIFORXCURRENTADDR)[1][3] = 17

\* C23: the line-0 handler run in RxRunning with the CRC-error flag set
\* emits exactly one RxError(Crc) and no RxDone, unarms the RX timer,
\* leaves Idle (RxRunning when rx_continuous), and leaves the last-packet
\* record unchanged and the FIFO unread.
C23_CrcErrorKeepsPacket ==
    [][ Dio0Rx(TRUE) =>
          /\ Events(oplog') = << << "event", "RX_ERROR_CRC", 0 >> >>
          /\ ~rx_timer'
          /\ state' = StateAfterRx
          /\ last_packet' = last_packet
          /\ FifoReads(oplog') = << >> ]_vars

\* a CRC error ended a one-shot reception that had stored a packet before
C23_Witness ==
    /\ last_op = "sx1272_on_dio0"
    /\ "RX_ERROR_CRC" \in EventNames(oplog)
    /\ state = "IDLE"
    /\ last_packet.size = 2

\* C24: the line-0 handler run in TxRunning unarms the TX timer, clears the
\* TX-done flag, leaves Idle and emits exactly one TxDone; run in Idle or
\* Cad it emits nothing, writes no register and leaves the logical state
\* and both timers unchanged.
C24_TxDoneOrNothing ==
    [][ last_op' = "sx1272_on_dio0" =>
          /\ state = "TX_RUNNING" =>
                /\ ~tx_timer'
                /\ Writes(oplog')
                     = << << "w", REG.LR_IRQFLAGS, RFLR.IRQFLAGS_TXDONE >> >>
                /\ state' = "IDLE"
                /\ Events(oplog') = << << "event", "TX_DONE", 0 >> >>
          /\ state \in { "IDLE", "CAD" } =>
                /\ Events(oplog') = << >>
                /\ Writes(oplog') = << >>
                /\ state' = state
                /\ tx_timer' = tx_timer
                /\ rx_timer' = rx_timer ]_vars

\* a send was completed by the line-0 handler
C24_Witness ==
    /\ last_op = "sx1272_on_dio0"
    /\ "TX_DONE" \in EventNames(oplog)
    /\ state = "IDLE"
    /\ ~tx_timer

\* C25: the line-2 handler emits FhssChangeChannel iff frequency hopping is
\* enabled and the logical state is RxRunning or TxRunning; it then clears
\* the hop-change flag and caches the chip's hop-channel field; it never
\* changes the logical state or a timer, and when the condition is false
\* it writes no register and emits nothing.
C25_HopChangeOnlyWhileRunning ==
    [][ last_op' = "sx1272_on_dio2" =>
          LET hopping == /\ lora.freq_hop_on
                         /\ state \in { "RX_RUNNING", "TX_RUNNING" }
          IN  /\ ("FHSS_CHANGE_CHANNEL" \in EventNames(oplog')) = hopping
              /\ hopping =>
                    /\ Writes(oplog')
                         = << << "w", REG.LR_IRQFLAGS,
                                 RFLR.IRQFLAGS_FHSSCHANGEDCHANNEL >> >>
                    /\ last_channel'
                         = ReadsOf(oplog', REG.LR_HOPCHANNEL)[1][3] % 64
                    /\ Len(Events(oplog')) = 1
              /\ ~hopping => Writes(oplog') = << >> /\ Events(oplog') = << >>
              /\ state' = state
              /\ tx_timer' = tx_timer
              /\ rx_timer' = rx_timer ]_vars

\* a hop change was handled during a send
C25_Witness ==
    /\ last_op = "sx1272_on_dio2"
    /\ "FHSS_CHANGE_CHANNEL" \in EventNames(oplog)
    /\ state = "TX_RUNNING"
    /\ last_channel = 2

\* the positions of the entries of kind k in a call log
PositionsOf(log, k) == { i \in 1 .. Len(log) : log[i][1] = k }

\* every entry of kind a lies before every entry of kind b
Before(log, a, b) ==
    \A i \in PositionsOf(log, a), j \in PositionsOf(log, b) : i < j

\* C26: after sx1272_set_rx(timeout) the logical state is RxRunning; with
\* rx_continuous the mode requested is Receiver and the call arms no RX
\* timer whatever the timeout; without it the mode requested is
\* ReceiverSingle and the call arms the RX timer iff timeout is not 0, and
\* arms it before it requests the mode.
C26_SetRxModeAndTimer ==
    last_op = "sx1272_set_rx" =>
        LET timeout == oplog[1][2]
            armed == PositionsOf(oplog, "rx_timer_set") # { }
        IN  /\ state = "RX_RUNNING"
            /\ lora.rx_continuous =>
                  /\ req_mode = RF.OPMODE_RECEIVER
                  /\ ~armed
            /\ ~lora.rx_continuous =>
                  /\ req_mode = RFLR.OPMODE_RECEIVER_SINGLE
                  /\ armed = (timeout # 0)
                  /\ timeout # 0 => rx_timer
                  /\ Before(oplog, "rx_timer_set", "op_mode")

\* a one-shot reception was started with a timeout
C26_Witness ==
    /\ last_op = "sx1272_set_rx"
    /\ ~lora.rx_continuous
    /\ oplog[1][2] = 1000
    /\ rx_timer
    /\ req_mode = RFLR.OPMODE_RECEIVER_SINGLE

\* the mode field the chip holds when entry k of a call log is made, the
\* operating-mode register holding the byte initial when the log begins
ModeFieldAt(log, k, initial) ==
    LET ws == { i \in 1 .. k - 1 :
                  log[i][1] = "w" /\ log[i][2] = REG.OPMODE }
    IN  IF ws = { } THEN ModeField(initial)
        ELSE ModeField(log[CHOOSE i \in ws : \A j \in ws : j <= i][3])

\* C27: after sx1272_send (LoRa) from any mode and logical state, the
\* logical state is TxRunning, the TX timer is armed, the mode requested is
\* Transmitter, the payload was written to the FIFO while the chip's mode
\* field was not Sleep, and the timer was armed before Transmitter was
\* requested.
C27_SendArmsThenTransmits ==
    [][ last_op' = "sx1272_send" =>
          /\ state' = "TX_RUNNING"
          /\ tx_timer'
          /\ req_mode' = RF.OPMODE_TRANSMITTER
          /\ PositionsOf(oplog', "wfifo") # { }
          /\ \A k \in PositionsOf(oplog', "wfifo") :
                ModeFieldAt(oplog', k, regs[REG.OPMODE]) # RF.OPMODE_SLEEP
          /\ \E i \in PositionsOf(oplog', "tx_timer_set") :
                \A j \in PositionsOf(oplog', "op_mode") :
                    oplog'[j][2] = RF.OPMODE_TRANSMITTER => i < j ]_vars

\* a send that found the chip asleep and woke it to Standby first
C27_Witness ==
    /\ last_op = "sx1272_send"
    /\ state = "TX_RUNNING"
    /\ tx_timer
    /\ \E i \in PositionsOf(oplog, "op_mode"), j \in PositionsOf(oplog, "wfifo") :
          i < j /\ oplog[i][2] = RF.OPMODE_STANDBY

\* C28: sx1272_set_sleep and sx1272_set_standby cancel both timers before
\* they request the mode, and leave the logical state Idle, both timers
\* unarmed and the chip's mode field at Sleep respectively Standby.
C28_SleepStandbyCancelTimers ==
    last_op \in { "sx1272_set_sleep", "sx1272_set_standby" } =>
        /\ PositionsOf(oplog, "tx_timer_remove") # { }
        /\ PositionsOf(oplog, "rx_timer_remove") # { }
        /\ Before(oplog, "tx_timer_remove", "op_mode")
        /\ Before(oplog, "rx_timer_remove", "op_mode")
        /\ state = "IDLE"
        /\ ~tx_timer
        /\ ~rx_timer
        /\ ModeField(regs[REG.OPMODE])
               = IF last_op = "sx1272_set_sleep" THEN RF.OPMODE_SLEEP
                                                 ELSE RF.OPMODE_STANDBY

\* standby was requested during a send whose TX timer was still armed
C28_Witness ==
    /\ last_op = "sx1272_set_standby"
    /\ cycle = "TX"
    /\ cycle_events = 0
    /\ ~tx_timer
    /\ ModeField(regs[REG.OPMODE]) = RF.OPMODE_STANDBY

\* C29: after every public operation the logical state agrees with the
\* chip's operating mode: TxRunning with Transmitter, RxRunning with
\* Receiver or ReceiverSingle, Cad with channel activity detection; no
\* operation leaves the chip in Sleep or Standby with the logical state at
\* TxRunning, RxRunning or Cad.
C29_StateAgreesWithMode ==
    (init_result = "INIT_OK" /\ ctx = "caller") =>
        LET mode == ModeField(regs[REG.OPMODE])
        IN  /\ state = "TX_RUNNING" => mode = RF.OPMODE_TRANSMITTER
            /\ state = "RX_RUNNING" =>
                  mode \in { RF.OPMODE_RECEIVER,
                             RFLR.OPMODE_RECEIVER_SINGLE }
            /\ state = "CAD" => mode = RFLR.OPMODE_CAD

\* C30: a line-0 message that was already queued when the caller started
\* the current sx1272_send or sx1272_set_rx (the operation is the last step
\* before the dispatch, so the message was posted before it) produces no
\* TxDone or RxDone and cancels no timer of that operation.
C30_NoStaleCompletion ==
    [][ ( /\ last_op' = "sx1272_on_dio0"
          /\ last_op \in { "sx1272_send", "sx1272_set_rx" } ) =>
            /\ EventNames(oplog') \cap { "TX_DONE", "RX_DONE" } = { }
            /\ tx_timer' = tx_timer
            /\ rx_timer' = rx_timer ]_vars

\* C31: whenever the interrupt callback of some DIO line is registered and
\* enabled, the worker task exists and its handle is stored in the device,
\* whether sx1272_init succeeded or failed.
C31_CallbackOnlyWithWorker ==
    (\E i \in DioLines : irq_en[i]) => pid

====
